---------------------------- MODULE Spec2Model ----------------------------
(***************************************************************************)
(* Concurrency substrate of QuantTrading:                                  *)
(*   - LockFreeQueue<T>  (src/base/common/lock_free/lock_free_queue.h)     *)
(*   - SafeQueue<T>      (src/base/common/safe_queue/safe_queue.h)         *)
(*   - ThreadPool over SafeQueue (src/base/common/safe_queue/              *)
(*     safe_queue.cpp, namespace quant::base::common::thread_pool)         *)
(*                                                                         *)
(* Part I models the lock-free queue at the granularity of its atomic      *)
(* loads, CASes and deletes.  Node addresses are never recycled (spec.md   *)
(* 4.1, "ABA": the allocator is assumed not to hand a freed address out    *)
(* again); a load from a node that has been deleted is undefined           *)
(* behaviour and returns either what the node last held or zeroed memory.  *)
(* Part II models the SafeQueue-backed pool: one step per atomic           *)
(* operation or mutex-protected critical section.                          *)
(***************************************************************************)
EXTENDS Integers, Sequences, FiniteSets, TLC

(***************************************************************************)
(* Bounds                                                                  *)
(***************************************************************************)
NumProducers == 2
NumConsumers == 2
\* enqueue calls of one run, all producers together
MaxItems == 3
\* addresses the allocator hands out a second time in one run
MaxReuse == 1

\* push calls on the SafeQueue of one run; pop and block_pop calls together
\* number no more
MaxPushes == 3
\* threads that call block_pop, and threads that call pop
NumBlockPoppers == 2
NumPoppers == 1

\* largest thread_count passed to ThreadPool::create
MaxThreadCount == 5

\* submit calls of one run, all client threads together
MaxTasks == 2
\* threads that call submit, wait_all and stop
NumClients == 2
\* worker threads of the pool (test_thread_pool.cpp:14, ThreadPool::create(2))
NumWorkers == 2

Producers == 1 .. NumProducers
Consumers == (NumProducers + 1) .. (NumProducers + NumConsumers)
Threads == Producers \cup Consumers
TheConsumer == NumProducers + 1

\* nullptr, the sentinel allocated by the constructor, the node address space
NULL == 0
Sentinel == 1
Nodes == 1 .. (1 + MaxItems)

\* payload encodings: the sentinel's empty unique_ptr, what a read of a
\* destroyed payload may yield, and the consumer's not yet assigned `value`
NoData == -1
Junk == -2
Unset == -3

\* the j-th value producer p enqueues (part_002:61, i * kItemsPerProducer + j)
Val(p, j) == (p - 1) * MaxItems + j

VARIABLES
    \* ---- LockFreeQueue ----
    head_,      \* std::atomic<Node*> head_
    tail_,      \* std::atomic<Node*> tail_
    node_next,  \* Node::next of every address
    node_data,  \* *Node::data of every address
    nalloc,     \* number of nodes `new` has returned
    freed,      \* addresses `delete` has been called on
    pc,         \* position of every queue thread
    new_node,   \* enqueue's local new_node
    old_tail,   \* enqueue's local old_tail
    next,       \* the local `next` of enqueue and dequeue
    old_head,   \* dequeue's local old_head
    value,      \* the caller's out parameter of dequeue
    ret,        \* result of the thread's last dequeue: "none", "true", "false"
    sent,       \* number of enqueue calls each producer has started
    joined,     \* the producer threads have been joined (part_002:67, 124)
    got,        \* values each consumer's successful dequeues returned, in order
    \* ---- history (LockFreeQueue) ----
    abs,        \* abstract FIFO: appended at the tail->next CAS, popped at the head CAS
    lin,        \* abstract element a dequeue removed at its head CAS
    emptySeen,  \* the abstract FIFO was empty at some point of the current dequeue
    value_in,   \* `value` at entry of the current dequeue
    moved,      \* nodes whose payload a dequeue has moved out (line 118)
    recycled,   \* addresses `new` has returned a second time
    \* ---- ThreadPool over SafeQueue ----
    is_running_,           \* std::atomic<bool> is_running_
    task_count_,           \* std::atomic<size_t> task_count_
    wait_for_completion_,  \* bool wait_for_completion_ (the member)
    wait_mutex_,           \* holder of wait_mutex_, NoThread if free
    task_queue_,           \* SafeQueue::data_, the queued closures
    threads_,              \* workers still in the threads_ vector
    wpc,                   \* position of every worker
    wtask,                 \* closure a worker holds (NoTask if none)
    wdrain,                \* the worker has left its while (is_running_) loop
    cpc,                   \* position of every client thread
    cop,                   \* API call a client is in
    ctask,                 \* closure a client holds (submit, clear_queue's dummy)
    ntasks,                \* packaged_tasks created so far
    owner,                 \* client that created each task
    fstate,                \* shared state of each future
    fvalue,                \* value stored in a ready future
    execs,                 \* how often each task's callable was invoked
    ranby,                 \* worker that invoked each task's callable
    \* ---- history (ThreadPool) ----
    accepted,              \* tasks whose submit returned a future
    hooked,                \* tasks whose completion hook has decremented task_count_
    discarded,             \* tasks clear_queue has popped and decremented for
    cret,                  \* how each client's last call ended
    afterFail,             \* tasks submitted after some task's callable had thrown
    quiet,                 \* no other client was inside submit since the client's call began
    stop_log,              \* the argument of every stop call that went past line 234
    owner_ref,             \* the creator still holds the shared_ptr create() returned
    blocked_at_stop,       \* clients blocked in wait_all when stop(true) flipped
                           \* is_running_ and not yet back from that wait_all
    \* ---- SafeQueue on its own ----
    data_,                 \* std::deque<T> data_
    sq_pc,                 \* position of every consumer thread
    sq_value,              \* the caller's `value` argument
    sq_ret,                \* what the thread's last pop / block_pop returned
    sq_pushed,             \* push calls so far
    sq_calls,              \* pop and block_pop calls so far
    \* ---- ThreadPool::create ----
    cr_arg,                \* the thread_count argument
    cr_pc,                 \* position of the creating thread
    cr_is_running,         \* is_running_ of the pool under construction
    cr_task_count,         \* its task_count_
    cr_threads,            \* its threads_: the position of every started worker
    \* ---- ThreadPool over LockFreeQueue (quant::shared::base::thread_pool) ----
    lfp_is_running,        \* std::atomic<bool> is_running_
    lfp_task_count,        \* std::atomic<size_t> task_count_
    lfp_task_queue,        \* LockFreeQueue<Task> task_queue_, oldest first
    lfp_threads,           \* std::vector<std::thread> threads_
    lfp_wpc,               \* position of every worker thread
    lfp_wtask,             \* closure a worker has dequeued
    lfp_wdrain,            \* the worker is past its while loop (lines 383-392)
    lfp_cpc,               \* position of every client thread
    lfp_cop,               \* API call a client is in
    lfp_ctask,             \* closure a client is submitting
    lfp_ntasks,            \* packaged_tasks created so far
    lfp_fstate,            \* shared state of each future
    lfp_execs,             \* how often each task's callable was invoked
    lfp_cret,              \* how each client's last call ended
    \* ---- history (ThreadPool over LockFreeQueue) ----
    lfp_at_stop,           \* tasks in task_queue_ when stop(false) flipped is_running_
    lfp_stop_log           \* the argument of every stop call that flipped is_running_

lfqVars == << head_, tail_, node_next, node_data, nalloc, freed, pc, new_node,
              old_tail, next, old_head, value, ret, sent, joined, got,
              abs, lin, emptySeen, value_in, moved, recycled >>

poolVars == << is_running_, task_count_, wait_for_completion_, wait_mutex_,
               task_queue_, threads_, wpc, wtask, wdrain, cpc, cop, ctask,
               ntasks, owner, fstate, fvalue, execs, ranby, afterFail,
               accepted, hooked, discarded, cret, quiet, stop_log, owner_ref,
               blocked_at_stop >>

sqVars == << data_, sq_pc, sq_value, sq_ret, sq_pushed, sq_calls >>

crVars == << cr_arg, cr_pc, cr_is_running, cr_task_count, cr_threads >>

lfpVars == << lfp_is_running, lfp_task_count, lfp_task_queue, lfp_threads,
              lfp_wpc, lfp_wtask, lfp_wdrain, lfp_cpc, lfp_cop, lfp_ctask,
              lfp_ntasks, lfp_fstate, lfp_execs, lfp_cret, lfp_at_stop,
              lfp_stop_log >>

vars == << lfqVars, poolVars, sqVars, crVars, lfpVars >>

(***************************************************************************)
(* Part I.  LockFreeQueue                                                  *)
(***************************************************************************)

\* LockFreeQueue(): head_(new Node<T>()), tail_(head_.load())
LFQInit ==
    /\ head_ = Sentinel
    /\ tail_ = Sentinel
    /\ node_next = [n \in Nodes |-> NULL]
    /\ node_data = [n \in Nodes |-> NoData]
    /\ nalloc = 1
    /\ freed = {}
    /\ pc = [t \in Threads |-> "idle"]
    /\ new_node = [t \in Threads |-> NULL]
    /\ old_tail = [t \in Threads |-> NULL]
    /\ next = [t \in Threads |-> NULL]
    /\ old_head = [t \in Threads |-> NULL]
    /\ value = [t \in Threads |-> Unset]
    /\ ret = [t \in Threads |-> "none"]
    /\ sent = [p \in Producers |-> 0]
    /\ joined = FALSE
    /\ got = [c \in Consumers |-> << >>]
    /\ abs = << >>
    /\ lin = [t \in Threads |-> NoData]
    /\ emptySeen = [t \in Threads |-> FALSE]
    /\ value_in = [t \in Threads |-> Unset]
    /\ moved = {}
    /\ recycled = {}

\* n->next.load(): a deleted node yields what it last held or zeroed memory
LoadNext(n) ==
    IF n \in freed THEN {node_next[n], NULL} ELSE {node_next[n]}

\* *n->data: the payload of a deleted node has been destroyed with it
LoadData(n) ==
    IF n \in freed THEN {node_data[n], Junk} ELSE {node_data[n]}

\* compare_exchange_weak: succeeds only if equal, and may fail spuriously
CASWeak(equal) == IF equal THEN {TRUE, FALSE} ELSE {FALSE}

\* enqueue, lines 68-69: allocate the node, load tail_
EnqStart(p) ==
    /\ pc[p] = "idle"
    /\ ~joined
    /\ nalloc + 1 \in Nodes
    /\ nalloc' = nalloc + 1
    /\ node_data' = [node_data EXCEPT ![nalloc + 1] = Val(p, sent[p])]
    /\ node_next' = [node_next EXCEPT ![nalloc + 1] = NULL]
    /\ new_node' = [new_node EXCEPT ![p] = nalloc + 1]
    /\ old_tail' = [old_tail EXCEPT ![p] = tail_]
    /\ sent' = [sent EXCEPT ![p] = @ + 1]
    /\ pc' = [pc EXCEPT ![p] = "e_read"]
    /\ UNCHANGED << poolVars, sqVars, crVars, lfpVars >>
    /\ UNCHANGED << head_, tail_, freed, next, old_head, value, ret, joined, got,
                    abs, lin, emptySeen, value_in, moved, recycled >>

\* enqueue, lines 68-69, when `new` returns the address of a node that
\* `delete old_head` (line 121) has released
EnqStartReuse(p) ==
    /\ pc[p] = "idle"
    /\ ~joined
    /\ sent[p] < MaxItems
    /\ Cardinality(recycled) < MaxReuse
    /\ \E n \in freed :
          /\ freed' = freed \ {n}
          /\ recycled' = recycled \cup {n}
          /\ moved' = moved \ {n}
          /\ node_data' = [node_data EXCEPT ![n] = Val(p, sent[p])]
          /\ node_next' = [node_next EXCEPT ![n] = NULL]
          /\ new_node' = [new_node EXCEPT ![p] = n]
    /\ old_tail' = [old_tail EXCEPT ![p] = tail_]
    /\ sent' = [sent EXCEPT ![p] = @ + 1]
    /\ pc' = [pc EXCEPT ![p] = "e_read"]
    /\ UNCHANGED << poolVars, sqVars, crVars, lfpVars >>
    /\ UNCHANGED << head_, tail_, nalloc, next, old_head, value, ret, joined, got,
                    abs, lin, emptySeen, value_in >>

\* enqueue, lines 73-74: next = old_tail->next.load(acquire)
EnqRead(p) ==
    /\ pc[p] = "e_read"
    /\ \E cur \in LoadNext(old_tail[p]) :
          /\ next' = [next EXCEPT ![p] = cur]
          /\ pc' = [pc EXCEPT ![p] = IF cur # NULL THEN "e_help" ELSE "e_link"]
    /\ UNCHANGED << poolVars, sqVars, crVars, lfpVars >>
    /\ UNCHANGED << head_, tail_, node_next, node_data, nalloc, freed, new_node,
                    old_tail, old_head, value, ret, sent, joined, got,
                    abs, lin, emptySeen, value_in, moved, recycled >>

\* enqueue, lines 76-79: tail_.compare_exchange_weak(old_tail, next); continue
EnqHelp(p) ==
    /\ pc[p] = "e_help"
    /\ \E ok \in CASWeak(tail_ = old_tail[p]) :
          IF ok
          THEN /\ tail_' = next[p]
               /\ UNCHANGED old_tail
          ELSE /\ old_tail' = [old_tail EXCEPT ![p] = tail_]
               /\ UNCHANGED tail_
    /\ pc' = [pc EXCEPT ![p] = "e_read"]
    /\ UNCHANGED << poolVars, sqVars, crVars, lfpVars >>
    /\ UNCHANGED << head_, node_next, node_data, nalloc, freed, new_node,
                    next, old_head, value, ret, sent, joined, got,
                    abs, lin, emptySeen, value_in, moved, recycled >>

\* EnqLink with the CAS replaced by a plain store of new_node
EnqLink_Store(p) ==
    /\ pc[p] = "e_link"
    /\ node_next' = [node_next EXCEPT ![old_tail[p]] = new_node[p]]
    /\ abs' = Append(abs, node_data[new_node[p]])
    /\ pc' = [pc EXCEPT ![p] = "e_swing"]
    /\ UNCHANGED << poolVars, sqVars, crVars, lfpVars >>
    /\ UNCHANGED << head_, tail_, node_data, nalloc, freed, new_node,
                    old_tail, next, old_head, value, ret, sent, joined, got,
                    lin, emptySeen, value_in, moved, recycled >>

\* enqueue, lines 83-85: old_tail->next.compare_exchange_weak(next, new_node)
EnqLink(p) ==
    /\ pc[p] = "e_link"
    /\ \E cur \in LoadNext(old_tail[p]) :
       \E ok \in CASWeak(cur = next[p]) :
          IF ok
          THEN /\ node_next' = [node_next EXCEPT ![old_tail[p]] = new_node[p]]
               /\ abs' = Append(abs, node_data[new_node[p]])
               /\ pc' = [pc EXCEPT ![p] = "e_swing"]
               /\ UNCHANGED next
          ELSE /\ next' = [next EXCEPT ![p] = cur]
               /\ pc' = [pc EXCEPT ![p] = "e_read"]
               /\ UNCHANGED << node_next, abs >>
    /\ UNCHANGED << poolVars, sqVars, crVars, lfpVars >>
    /\ UNCHANGED << head_, tail_, node_data, nalloc, freed, new_node,
                    old_tail, old_head, value, ret, sent, joined, got,
                    lin, emptySeen, value_in, moved, recycled >>

\* enqueue, lines 87-90: tail_.compare_exchange_weak(old_tail, new_node); return
EnqSwing(p) ==
    /\ pc[p] = "e_swing"
    /\ \E ok \in CASWeak(tail_ = old_tail[p]) :
          tail_' = IF ok THEN new_node[p] ELSE tail_
    /\ pc' = [pc EXCEPT ![p] = "idle"]
    /\ new_node' = [new_node EXCEPT ![p] = NULL]
    /\ old_tail' = [old_tail EXCEPT ![p] = NULL]
    /\ next' = [next EXCEPT ![p] = NULL]
    /\ UNCHANGED << poolVars, sqVars, crVars, lfpVars >>
    /\ UNCHANGED << head_, node_next, node_data, nalloc, freed,
                    old_head, value, ret, sent, joined, got,
                    abs, lin, emptySeen, value_in, moved, recycled >>

\* dequeue, line 98: old_head = head_.load(relaxed)
DeqStart(c) ==
    /\ pc[c] = "idle"
    /\ old_head' = [old_head EXCEPT ![c] = head_]
    /\ ret' = [ret EXCEPT ![c] = "none"]
    /\ lin' = [lin EXCEPT ![c] = NoData]
    /\ emptySeen' = [emptySeen EXCEPT ![c] = (abs = << >>)]
    /\ value_in' = [value_in EXCEPT ![c] = value[c]]
    /\ pc' = [pc EXCEPT ![c] = "d_read"]
    /\ UNCHANGED << poolVars, sqVars, crVars, lfpVars >>
    /\ UNCHANGED << head_, tail_, node_next, node_data, nalloc, freed, new_node,
                    old_tail, next, value, sent, joined, got, abs, moved, recycled >>

\* dequeue, lines 101-108: null checks and next = old_head->next.load(acquire)
DeqRead(c) ==
    /\ pc[c] = "d_read"
    /\ IF old_head[c] = NULL
       THEN /\ ret' = [ret EXCEPT ![c] = "false"]
            /\ pc' = [pc EXCEPT ![c] = "idle"]
            /\ UNCHANGED << next, old_head >>
       ELSE \E cur \in LoadNext(old_head[c]) :
               /\ next' = [next EXCEPT ![c] = cur]
               /\ ret' = [ret EXCEPT ![c] = IF cur = NULL THEN "false" ELSE "none"]
               /\ pc' = [pc EXCEPT ![c] = IF cur = NULL THEN "idle" ELSE "d_cas"]
               /\ old_head' = [old_head EXCEPT ![c] = IF cur = NULL THEN NULL ELSE @]
    /\ UNCHANGED << poolVars, sqVars, crVars, lfpVars >>
    /\ UNCHANGED << head_, tail_, node_next, node_data, nalloc, freed, new_node,
                    old_tail, value, sent, joined, got,
                    abs, lin, emptySeen, value_in, moved, recycled >>

\* dequeue, lines 111-115: head_.compare_exchange_weak(old_head, next)
DeqCAS(c) ==
    /\ pc[c] = "d_cas"
    /\ \E ok \in CASWeak(head_ = old_head[c]) :
          IF ok
          THEN /\ head_' = next[c]
               /\ abs' = IF abs = << >> THEN abs ELSE Tail(abs)
               /\ lin' = [lin EXCEPT ![c] = IF abs = << >> THEN NoData ELSE Head(abs)]
               /\ emptySeen' = [t \in Threads |->
                                   emptySeen[t] \/ (t # c /\ Len(abs) <= 1
                                                    /\ pc[t] \in {"d_read", "d_cas"})]
               /\ pc' = [pc EXCEPT ![c] = "d_move"]
               /\ UNCHANGED old_head
          ELSE /\ old_head' = [old_head EXCEPT ![c] = head_]
               /\ pc' = [pc EXCEPT ![c] = "d_read"]
               /\ UNCHANGED << head_, abs, lin, emptySeen >>
    /\ UNCHANGED << poolVars, sqVars, crVars, lfpVars >>
    /\ UNCHANGED << tail_, node_next, node_data, nalloc, freed, new_node,
                    old_tail, next, value, ret, sent, joined, got, value_in, moved, recycled >>

\* dequeue, line 118: value = std::move(*next->data)
DeqMove(c) ==
    /\ pc[c] = "d_move"
    /\ \E v \in LoadData(next[c]) : value' = [value EXCEPT ![c] = v]
    /\ moved' = moved \cup {next[c]}
    /\ pc' = [pc EXCEPT ![c] = "d_free"]
    /\ UNCHANGED << poolVars, sqVars, crVars, lfpVars >>
    /\ UNCHANGED << head_, tail_, node_next, node_data, nalloc, freed, new_node,
                    old_tail, next, old_head, ret, sent, joined, got,
                    abs, lin, emptySeen, value_in, recycled >>

\* a dequeue that deletes the node it has just made the sentinel
DeqFree_Next(c) ==
    /\ pc[c] = "d_free"
    /\ freed' = freed \cup {next[c]}
    /\ ret' = [ret EXCEPT ![c] = "true"]
    /\ got' = [got EXCEPT ![c] = Append(@, value[c])]
    /\ pc' = [pc EXCEPT ![c] = "idle"]
    /\ old_head' = [old_head EXCEPT ![c] = NULL]
    /\ next' = [next EXCEPT ![c] = NULL]
    /\ UNCHANGED << poolVars, sqVars, crVars, lfpVars >>
    /\ UNCHANGED << head_, tail_, node_next, node_data, nalloc, new_node,
                    old_tail, value, sent, joined,
                    abs, lin, emptySeen, value_in, moved, recycled >>

\* dequeue, lines 121-122: delete old_head; return true
DeqFree(c) ==
    /\ pc[c] = "d_free"
    /\ freed' = freed \cup {old_head[c]}
    /\ ret' = [ret EXCEPT ![c] = "true"]
    /\ got' = [got EXCEPT ![c] = Append(@, value[c])]
    /\ pc' = [pc EXCEPT ![c] = "idle"]
    /\ old_head' = [old_head EXCEPT ![c] = NULL]
    /\ next' = [next EXCEPT ![c] = NULL]
    /\ UNCHANGED << poolVars, sqVars, crVars, lfpVars >>
    /\ UNCHANGED << head_, tail_, node_next, node_data, nalloc, new_node,
                    old_tail, value, sent, joined,
                    abs, lin, emptySeen, value_in, moved, recycled >>

Enqueue(p) ==
    EnqStart(p) \/ EnqRead(p) \/ EnqHelp(p) \/ EnqLink(p) \/ EnqSwing(p)

Dequeue(c) ==
    DeqStart(c) \/ DeqRead(c) \/ DeqCAS(c) \/ DeqMove(c) \/ DeqFree(c)

\* part_002:67-69, 124-129: every producer thread has returned and is joined
JoinProducers ==
    /\ ~joined
    /\ \A p \in Producers : pc[p] = "idle"
    /\ joined' = TRUE
    /\ UNCHANGED << poolVars, sqVars, crVars, lfpVars >>
    /\ UNCHANGED << head_, tail_, node_next, node_data, nalloc, freed, pc, new_node,
                    old_tail, next, old_head, value, ret, sent, got,
                    abs, lin, emptySeen, value_in, moved, recycled >>

(***************************************************************************)
(* Part II.  ThreadPool over SafeQueue                                     *)
(***************************************************************************)
Clients == 1 .. NumClients
Workers == 1 .. NumWorkers
Tasks == 1 .. MaxTasks

SeqToSet(q) == { q[i] : i \in 1 .. Len(q) }
NoThread == 0
NoTask == 0

\* a wrapper that binds every packaged_task to the first callable
BoundCallable_First(t) == 1

\* submit, lines 182-185: the packaged_task of the t-th accepted submit binds
\* the callable passed to that call, and the returned future is its own
BoundCallable(t) == t

\* a wrapper whose hook is skipped when the callable throws
HookRuns_OnSuccess(outcome) == outcome = "value"

\* the completion hook follows the try/catch around (*task)() and runs
\* whatever the callable did (safe_queue.cpp:192-201)
HookRuns(outcome) == TRUE

\* what the callable of task t returns (test_thread_pool.cpp:33-35: 10, 20, 30)
Ret(t) == 10 * t

\* safe_queue.cpp:262-269 (constructor) and 162-167 (create)
PoolCreated(ws) ==
    /\ is_running_ = TRUE
    /\ task_count_ = 0
    /\ wait_for_completion_ = TRUE
    /\ wait_mutex_ = NoThread
    /\ task_queue_ = << >>
    /\ threads_ = ws
    /\ wpc = [w \in Workers |-> IF w \in ws THEN "w_loop" ELSE "w_exit"]
    /\ wtask = [w \in Workers |-> NoTask]
    /\ wdrain = [w \in Workers |-> FALSE]
    /\ cpc = [c \in Clients |-> "idle"]
    /\ cop = [c \in Clients |-> "none"]
    /\ ctask = [c \in Clients |-> NoTask]
    /\ ntasks = 0
    /\ owner = [t \in Tasks |-> NoThread]
    /\ fstate = [t \in Tasks |-> "none"]
    /\ fvalue = [t \in Tasks |-> 0]
    /\ execs = [t \in Tasks |-> 0]
    /\ ranby = [t \in Tasks |-> NoThread]
    /\ afterFail = {}
    /\ accepted = {}
    /\ hooked = {}
    /\ discarded = {}
    /\ cret = [c \in Clients |-> "none"]
    /\ quiet = [c \in Clients |-> TRUE]
    /\ stop_log = << >>
    /\ owner_ref = TRUE
    /\ blocked_at_stop = {}

\* create(NumWorkers) has returned
PoolInit == PoolCreated(Workers)

\* create(1) has returned: worker 1 is the pool's only thread
TheWorker == 1
PoolInitOne == PoolCreated({TheWorker})

\* SafeQueue::push, safe_queue.h:33-44: data_.push_back under mutex_
SafeQueue_push(q, x) == Append(q, x)

\* a pop that drops the element behind the one it returns
SafeQueue_pop_Skip(q) ==
    IF q = << >> THEN [ok |-> FALSE, value |-> NoTask, rest |-> q]
    ELSE [ok |-> TRUE, value |-> Head(q),
          rest |-> IF Len(q) >= 2 THEN Tail(Tail(q)) ELSE Tail(q)]

\* SafeQueue::pop, safe_queue.h:49-59: false if empty, else moves the front
\* out and pop_front()s it
SafeQueue_pop(q) ==
    IF q = << >> THEN [ok |-> FALSE, value |-> NoTask, rest |-> q]
    ELSE [ok |-> TRUE, value |-> Head(q), rest |-> Tail(q)]

\* wait_cv_.notify_all(): every thread blocked in wait_cv_.wait goes on to
\* re-acquire wait_mutex_
NotifyAll(state) ==
    [c \in Clients |-> IF state[c] = "wa_blocked" THEN "wa_lock" ELSE state[c]]

InSubmit(c) == cpc[c] \in {"sub_inc", "sub_push"}
OthersOutsideSubmit(c) == \A d \in Clients \ {c} : ~InSubmit(d)

\* ---------------------------- submit --------------------------------------
\* a submit without the is_running_ check
SubmitRejects_Never == FALSE

\* submit, line 177: if (!is_running_.load())
SubmitRejects == ~is_running_

\* submit, lines 177-184: the is_running_ check and the packaged_task
SubmitCheck(c) ==
    /\ cpc[c] = "idle"
    /\ owner_ref
    /\ ntasks < MaxTasks
    /\ IF SubmitRejects
       THEN /\ cret' = [cret EXCEPT ![c] = "submit_threw"]
            /\ cop' = [cop EXCEPT ![c] = "none"]
            /\ UNCHANGED << cpc, ctask, ntasks, owner, fstate, quiet, afterFail >>
       ELSE /\ ntasks' = ntasks + 1
            /\ owner' = [owner EXCEPT ![ntasks + 1] = c]
            /\ fstate' = [fstate EXCEPT ![ntasks + 1] = "pending"]
            /\ afterFail' = IF \E u \in Tasks : fstate[u] = "exception" /\ u \in hooked
                             THEN afterFail \cup {ntasks + 1} ELSE afterFail
            /\ ctask' = [ctask EXCEPT ![c] = ntasks + 1]
            /\ cop' = [cop EXCEPT ![c] = "submit"]
            /\ cpc' = [cpc EXCEPT ![c] = "sub_inc"]
            /\ cret' = [cret EXCEPT ![c] = "none"]
            /\ quiet' = [d \in Clients |-> IF d = c THEN quiet[d] ELSE FALSE]
    /\ UNCHANGED << lfqVars, sqVars, crVars, lfpVars >>
    /\ UNCHANGED << is_running_, task_count_, wait_for_completion_, wait_mutex_,
                    task_queue_, threads_, wpc, wtask, wdrain, fvalue, execs, ranby,
                    accepted, hooked, discarded, stop_log, owner_ref,
                    blocked_at_stop >>

\* a submit that pushes without counting the task
SubmitInc_Skip(c) ==
    /\ cpc[c] = "sub_inc"
    /\ cpc' = [cpc EXCEPT ![c] = "sub_push"]
    /\ UNCHANGED << lfqVars, sqVars, crVars, lfpVars >>
    /\ UNCHANGED << is_running_, task_count_, wait_for_completion_, wait_mutex_,
                    task_queue_, threads_, wpc, wtask, wdrain, cop, ctask,
                    ntasks, owner, fstate, fvalue, execs, ranby, afterFail,
                    accepted, hooked, discarded, cret, quiet, stop_log, owner_ref,
                    blocked_at_stop >>

\* submit, line 187: task_count_.fetch_add(1)
SubmitInc(c) ==
    /\ cpc[c] = "sub_inc"
    /\ task_count_' = task_count_ + 1
    /\ cpc' = [cpc EXCEPT ![c] = "sub_push"]
    /\ UNCHANGED << lfqVars, sqVars, crVars, lfpVars >>
    /\ UNCHANGED << is_running_, wait_for_completion_, wait_mutex_,
                    task_queue_, threads_, wpc, wtask, wdrain, cop, ctask,
                    ntasks, owner, fstate, fvalue, execs, ranby, afterFail,
                    accepted, hooked, discarded, cret, quiet, stop_log, owner_ref,
                    blocked_at_stop >>

\* a submit whose closure goes to the front of the queue
SubmitPush_Front(c) ==
    /\ cpc[c] = "sub_push"
    /\ task_queue_' = << ctask[c] >> \o task_queue_
    /\ accepted' = accepted \cup {ctask[c]}
    /\ ctask' = [ctask EXCEPT ![c] = NoTask]
    /\ cop' = [cop EXCEPT ![c] = "none"]
    /\ cpc' = [cpc EXCEPT ![c] = "idle"]
    /\ cret' = [cret EXCEPT ![c] = "submitted"]
    /\ UNCHANGED << lfqVars, sqVars, crVars, lfpVars >>
    /\ UNCHANGED << is_running_, task_count_, wait_for_completion_, wait_mutex_,
                    threads_, wpc, wtask, wdrain,
                    ntasks, owner, fstate, fvalue, execs, ranby, afterFail,
                    hooked, discarded, quiet, stop_log, owner_ref,
                    blocked_at_stop >>

\* submit, lines 191-208: task_queue_.push(closure); return res
SubmitPush(c) ==
    /\ cpc[c] = "sub_push"
    /\ task_queue_' = SafeQueue_push(task_queue_, ctask[c])
    /\ accepted' = accepted \cup {ctask[c]}
    /\ ctask' = [ctask EXCEPT ![c] = NoTask]
    /\ cop' = [cop EXCEPT ![c] = "none"]
    /\ cpc' = [cpc EXCEPT ![c] = "idle"]
    /\ cret' = [cret EXCEPT ![c] = "submitted"]
    /\ UNCHANGED << lfqVars, sqVars, crVars, lfpVars >>
    /\ UNCHANGED << is_running_, task_count_, wait_for_completion_, wait_mutex_,
                    threads_, wpc, wtask, wdrain,
                    ntasks, owner, fstate, fvalue, execs, ranby, afterFail,
                    hooked, discarded, quiet, stop_log, owner_ref,
                    blocked_at_stop >>

\* ---------------------------- worker_thread -------------------------------
\* worker_thread, line 285 (while (is_running_)) and, once it is false,
\* line 305 (if (wait_for_completion_))
WorkerLoop(w) ==
    /\ wpc[w] = "w_loop"
    /\ IF is_running_
       THEN /\ wpc' = [wpc EXCEPT ![w] = "w_pop"]
            /\ UNCHANGED wdrain
       ELSE /\ wdrain' = [wdrain EXCEPT ![w] = TRUE]
            /\ wpc' = [wpc EXCEPT ![w] = IF wait_for_completion_ THEN "w_pop"
                                                             ELSE "w_exit"]
    /\ UNCHANGED << lfqVars, sqVars, crVars, lfpVars >>
    /\ UNCHANGED << is_running_, task_count_, wait_for_completion_, wait_mutex_,
                    task_queue_, threads_, wtask, cpc, cop, ctask,
                    ntasks, owner, fstate, fvalue, execs, ranby, afterFail,
                    accepted, hooked, discarded, cret, quiet, stop_log, owner_ref,
                    blocked_at_stop >>

\* worker_thread, lines 288-301 and 307-315: task_queue_.pop(task); in the
\* main loop an empty queue yields and re-tests is_running_, in the drain
\* loop it ends the thread
WorkerPop(w) ==
    /\ wpc[w] = "w_pop"
    /\ LET r == SafeQueue_pop(task_queue_) IN
          /\ task_queue_' = r.rest
          /\ wtask' = [wtask EXCEPT ![w] = r.value]
          /\ wpc' = [wpc EXCEPT ![w] = IF r.ok THEN "w_run"
                                       ELSE IF wdrain[w] THEN "w_exit"
                                       ELSE "w_loop"]
    /\ UNCHANGED << lfqVars, sqVars, crVars, lfpVars >>
    /\ UNCHANGED << is_running_, task_count_, wait_for_completion_, wait_mutex_,
                    threads_, wdrain, cpc, cop, ctask,
                    ntasks, owner, fstate, fvalue, execs, ranby, afterFail,
                    accepted, hooked, discarded, cret, quiet, stop_log, owner_ref,
                    blocked_at_stop >>

\* where a worker goes when the closure it ran has returned: the drain loop
\* pops again (line 307), the main loop re-tests is_running_ (line 285)
AfterTask(w) == IF wdrain[w] THEN "w_pop" ELSE "w_loop"

\* the closure worker w holds carries the last shared_ptr to the pool: the
\* creator has dropped its own, and no other closure (each holds `self`,
\* line 188) is queued or held by a thread
LastRef(w) ==
    /\ ~owner_ref
    /\ task_queue_ = << >>
    /\ \A v \in Workers \ {w} : wtask[v] = NoTask
    /\ \A c \in Clients : ctask[c] = NoTask

\* worker_thread, line 302/315: `task` goes out of scope and the closure is
\* destroyed, releasing its `self`; if that was the last reference,
\* ~ThreadPool (line 170) runs here, on the worker
AfterClosure(w) == IF LastRef(w) THEN "w_dtor" ELSE AfterTask(w)

\* worker_thread, lines 292/310: task(), i.e. the closure of submit up to
\* line 198: (*task)() runs the callable and stores its value or its
\* exception in the shared state; a packaged_task that was already invoked
\* throws future_error, which line 196 swallows
WorkerRun(w) ==
    /\ wpc[w] = "w_run"
    /\ LET t == wtask[w] IN
       \E outcome \in {"value", "exception"} :
          /\ IF fstate[t] = "pending"
             THEN /\ execs' = [execs EXCEPT ![t] = @ + 1]
                  /\ fstate' = [fstate EXCEPT ![t] = outcome]
                  /\ fvalue' = [fvalue EXCEPT ![t] = IF outcome = "value"
                                                      THEN Ret(BoundCallable(t))
                                                      ELSE 0]
                  /\ ranby' = [ranby EXCEPT ![t] = w]
             ELSE UNCHANGED << execs, fstate, fvalue, ranby >>
          /\ IF HookRuns(outcome)
             THEN /\ wpc' = [wpc EXCEPT ![w] = "w_dec"]
                  /\ UNCHANGED wtask
             ELSE /\ wpc' = [wpc EXCEPT ![w] = AfterClosure(w)]
                  /\ wtask' = [wtask EXCEPT ![w] = NoTask]
    /\ UNCHANGED << lfqVars, sqVars, crVars, lfpVars >>
    /\ UNCHANGED << is_running_, task_count_, wait_for_completion_, wait_mutex_,
                    task_queue_, threads_, wdrain, cpc, cop, ctask,
                    ntasks, owner, afterFail,
                    accepted, hooked, discarded, cret, quiet, stop_log, owner_ref,
                    blocked_at_stop >>

\* closure of submit, lines 201-202: remaining = task_count_.fetch_sub(1)
WorkerDec(w) ==
    /\ wpc[w] = "w_dec"
    /\ task_count_' = task_count_ - 1
    /\ hooked' = hooked \cup {wtask[w]}
    /\ IF task_count_ = 1
       THEN /\ wpc' = [wpc EXCEPT ![w] = "w_notify"]
            /\ UNCHANGED wtask
       ELSE /\ wpc' = [wpc EXCEPT ![w] = AfterClosure(w)]
            /\ wtask' = [wtask EXCEPT ![w] = NoTask]
    /\ UNCHANGED << lfqVars, sqVars, crVars, lfpVars >>
    /\ UNCHANGED << is_running_, wait_for_completion_, wait_mutex_,
                    task_queue_, threads_, wdrain, cpc, cop, ctask,
                    ntasks, owner, fstate, fvalue, execs, ranby, afterFail,
                    accepted, discarded, cret, quiet, stop_log, owner_ref,
                    blocked_at_stop >>

\* a completion hook that takes the mutex and notifies nobody
WorkerNotify_Silent(w) ==
    /\ wpc[w] = "w_notify"
    /\ wait_mutex_ = NoThread
    /\ wpc' = [wpc EXCEPT ![w] = AfterClosure(w)]
    /\ wtask' = [wtask EXCEPT ![w] = NoTask]
    /\ UNCHANGED << lfqVars, sqVars, crVars, lfpVars >>
    /\ UNCHANGED << is_running_, task_count_, wait_for_completion_, wait_mutex_,
                    task_queue_, threads_, wdrain, cpc, cop, ctask,
                    ntasks, owner, fstate, fvalue, execs, ranby, afterFail,
                    accepted, hooked, discarded, cret, quiet, stop_log, owner_ref,
                    blocked_at_stop >>

\* closure of submit, lines 203-204: lock wait_mutex_, wait_cv_.notify_all()
WorkerNotify(w) ==
    /\ wpc[w] = "w_notify"
    /\ wait_mutex_ = NoThread
    /\ cpc' = NotifyAll(cpc)
    /\ wpc' = [wpc EXCEPT ![w] = AfterClosure(w)]
    /\ wtask' = [wtask EXCEPT ![w] = NoTask]
    /\ UNCHANGED << lfqVars, sqVars, crVars, lfpVars >>
    /\ UNCHANGED << is_running_, task_count_, wait_for_completion_, wait_mutex_,
                    task_queue_, threads_, wdrain, cop, ctask,
                    ntasks, owner, fstate, fvalue, execs, ranby, afterFail,
                    accepted, hooked, discarded, cret, quiet, stop_log, owner_ref,
                    blocked_at_stop >>

\* ---------------------------- wait_all ------------------------------------
\* a predicate that looks at the queue instead of the counter
WaitPredicate_QueueEmpty == task_queue_ = << >>

\* the predicate of wait_cv_.wait, line 215
WaitPredicate == task_count_ = 0

\* pending_tasks, lines 220-222
pending_tasks == task_count_

\* wait_all is entered (line 212)
WaitAllBegin(c) ==
    /\ cpc[c] = "idle"
    /\ owner_ref
    /\ cop' = [cop EXCEPT ![c] = "wait_all"]
    /\ cpc' = [cpc EXCEPT ![c] = "wa_lock"]
    /\ cret' = [cret EXCEPT ![c] = "none"]
    /\ quiet' = [quiet EXCEPT ![c] = OthersOutsideSubmit(c)]
    /\ UNCHANGED << lfqVars, sqVars, crVars, lfpVars >>
    /\ UNCHANGED << is_running_, task_count_, wait_for_completion_, wait_mutex_,
                    task_queue_, threads_, wpc, wtask, wdrain, ctask,
                    ntasks, owner, fstate, fvalue, execs, ranby, afterFail,
                    accepted, hooked, discarded, stop_log, owner_ref,
                    blocked_at_stop >>

\* wait_all, line 213, and the re-acquisition inside wait_cv_.wait
WaLock(c) ==
    /\ cpc[c] = "wa_lock"
    /\ wait_mutex_ = NoThread
    /\ wait_mutex_' = c
    /\ cpc' = [cpc EXCEPT ![c] = "wa_check"]
    /\ UNCHANGED << lfqVars, sqVars, crVars, lfpVars >>
    /\ UNCHANGED << is_running_, task_count_, wait_for_completion_,
                    task_queue_, threads_, wpc, wtask, wdrain, cop, ctask,
                    ntasks, owner, fstate, fvalue, execs, ranby, afterFail,
                    accepted, hooked, discarded, cret, quiet, stop_log, owner_ref,
                    blocked_at_stop >>

\* wait_all, lines 214-217: with the mutex held the predicate is evaluated;
\* true: unlock and return (to the caller, or into stop at line 247);
\* false: wait_cv_.wait unlocks and blocks in one step
WaCheck(c) ==
    /\ cpc[c] = "wa_check"
    /\ wait_mutex_' = NoThread
    /\ blocked_at_stop' = IF WaitPredicate /\ cop[c] = "wait_all"
                          THEN blocked_at_stop \ {c}
                          ELSE blocked_at_stop
    /\ IF WaitPredicate
       THEN IF cop[c] = "wait_all"
            THEN /\ cpc' = [cpc EXCEPT ![c] = "idle"]
                 /\ cop' = [cop EXCEPT ![c] = "none"]
                 /\ cret' = [cret EXCEPT ![c] = "waited"]
            ELSE /\ cpc' = [cpc EXCEPT ![c] = "st_join"]
                 /\ UNCHANGED << cop, cret >>
       ELSE /\ cpc' = [cpc EXCEPT ![c] = "wa_blocked"]
            /\ UNCHANGED << cop, cret >>
    /\ UNCHANGED << lfqVars, sqVars, crVars, lfpVars >>
    /\ UNCHANGED << is_running_, task_count_, wait_for_completion_,
                    task_queue_, threads_, wpc, wtask, wdrain, ctask,
                    ntasks, owner, fstate, fvalue, execs, ranby, afterFail,
                    accepted, hooked, discarded, quiet, stop_log, owner_ref >>

\* std::condition_variable::wait may wake without a notification
WaSpurious(c) ==
    /\ cpc[c] = "wa_blocked"
    /\ cpc' = [cpc EXCEPT ![c] = "wa_lock"]
    /\ UNCHANGED << lfqVars, sqVars, crVars, lfpVars >>
    /\ UNCHANGED << is_running_, task_count_, wait_for_completion_, wait_mutex_,
                    task_queue_, threads_, wpc, wtask, wdrain, cop, ctask,
                    ntasks, owner, fstate, fvalue, execs, ranby, afterFail,
                    accepted, hooked, discarded, cret, quiet, stop_log, owner_ref,
                    blocked_at_stop >>

\* ---------------------------- stop ----------------------------------------
\* a closure that is dropped without its packaged_task being destroyed
Destroyed_Leak(fs, t) == fs

\* a closure is destroyed without having been invoked: its packaged_task goes
\* with it and the future's shared state gets broken_promise
Destroyed(fs, t) ==
    IF t # NoTask /\ fs[t] = "pending" THEN [fs EXCEPT ![t] = "broken"] ELSE fs

\* an exchange that flips the flag
ExchangedValue_Toggle == ~is_running_

\* stop, line 232: the value is_running_.exchange(false) stores
ExchangedValue == FALSE

\* a stop that goes on whatever is_running_ was
StopWins_Always == TRUE

\* stop, line 232: what is_running_.exchange(false) returns
StopWins == is_running_

\* stop is entered by a caller that holds the pool, or by ~ThreadPool, lines
\* 170-172, which calls stop(true)
StopEntered(c, wait) ==
    IF cpc[c] = "dtor" THEN wait ELSE cpc[c] = "idle" /\ owner_ref

\* stop, lines 232-244: is_running_.exchange(false); a call that reads false
\* returns at once, the other goes on to clear_queue or wait_all
StopBegin(c, wait) ==
    /\ StopEntered(c, wait)
    /\ is_running_' = ExchangedValue
    /\ quiet' = [quiet EXCEPT ![c] = OthersOutsideSubmit(c)]
    /\ IF ~StopWins
       THEN /\ cret' = [cret EXCEPT ![c] = IF wait THEN "stop_true_noop"
                                                    ELSE "stop_false_noop"]
            /\ cop' = [cop EXCEPT ![c] = "none"]
            /\ cpc' = [cpc EXCEPT ![c] = "idle"]
            /\ UNCHANGED << stop_log, blocked_at_stop >>
       ELSE /\ cret' = [cret EXCEPT ![c] = "none"]
            /\ cop' = [cop EXCEPT ![c] = IF wait THEN "stop_true" ELSE "stop_false"]
            /\ cpc' = [cpc EXCEPT ![c] = IF wait THEN "wa_lock" ELSE "st_clear"]
            /\ stop_log' = Append(stop_log, IF wait THEN "drain" ELSE "abandon")
            /\ blocked_at_stop' =
                  IF wait
                  THEN { d \in Clients : cop[d] = "wait_all" /\ cpc[d] = "wa_blocked" }
                  ELSE blocked_at_stop
    /\ UNCHANGED << lfqVars, sqVars, crVars, lfpVars >>
    /\ UNCHANGED << task_count_, wait_for_completion_, wait_mutex_,
                    task_queue_, threads_, wpc, wtask, wdrain, ctask,
                    ntasks, owner, fstate, fvalue, execs, ranby, afterFail,
                    accepted, hooked, discarded, owner_ref >>

\* clear_queue, line 274: task_queue_.pop(dummy); the move-assignment
\* destroys the closure dummy held before
StClearPop(c) ==
    /\ cpc[c] = "st_clear"
    /\ LET r == SafeQueue_pop(task_queue_) IN
          /\ task_queue_' = r.rest
          /\ IF r.ok
             THEN /\ ctask' = [ctask EXCEPT ![c] = r.value]
                  /\ fstate' = Destroyed(fstate, ctask[c])
                  /\ cpc' = [cpc EXCEPT ![c] = "st_clear_dec"]
             ELSE /\ cpc' = [cpc EXCEPT ![c] = "st_notify"]
                  /\ UNCHANGED << ctask, fstate >>
    /\ UNCHANGED << lfqVars, sqVars, crVars, lfpVars >>
    /\ UNCHANGED << is_running_, task_count_, wait_for_completion_, wait_mutex_,
                    threads_, wpc, wtask, wdrain, cop,
                    ntasks, owner, fvalue, execs, ranby, afterFail,
                    accepted, hooked, discarded, cret, quiet, stop_log, owner_ref,
                    blocked_at_stop >>

\* a clear_queue that discards without decrementing
StClearDec_Keep(c) ==
    /\ cpc[c] = "st_clear_dec"
    /\ discarded' = discarded \cup {ctask[c]}
    /\ cpc' = [cpc EXCEPT ![c] = "st_clear"]
    /\ UNCHANGED << lfqVars, sqVars, crVars, lfpVars >>
    /\ UNCHANGED << is_running_, task_count_, wait_for_completion_, wait_mutex_,
                    task_queue_, threads_, wpc, wtask, wdrain, cop, ctask,
                    ntasks, owner, fstate, fvalue, execs, ranby, afterFail,
                    accepted, hooked, cret, quiet, stop_log, owner_ref,
                    blocked_at_stop >>

\* clear_queue, line 276: task_count_.fetch_sub(1)
StClearDec(c) ==
    /\ cpc[c] = "st_clear_dec"
    /\ task_count_' = task_count_ - 1
    /\ discarded' = discarded \cup {ctask[c]}
    /\ cpc' = [cpc EXCEPT ![c] = "st_clear"]
    /\ UNCHANGED << lfqVars, sqVars, crVars, lfpVars >>
    /\ UNCHANGED << is_running_, wait_for_completion_, wait_mutex_,
                    task_queue_, threads_, wpc, wtask, wdrain, cop, ctask,
                    ntasks, owner, fstate, fvalue, execs, ranby, afterFail,
                    accepted, hooked, cret, quiet, stop_log, owner_ref,
                    blocked_at_stop >>

\* a clear_queue that ends without notifying wait_cv_
StClearNotify_Silent(c) ==
    /\ cpc[c] = "st_notify"
    /\ wait_mutex_ = NoThread
    /\ cpc' = [cpc EXCEPT ![c] = "st_join"]
    /\ fstate' = Destroyed(fstate, ctask[c])
    /\ ctask' = [ctask EXCEPT ![c] = NoTask]
    /\ UNCHANGED << lfqVars, sqVars, crVars, lfpVars >>
    /\ UNCHANGED << is_running_, task_count_, wait_for_completion_, wait_mutex_,
                    task_queue_, threads_, wpc, wtask, wdrain, cop,
                    ntasks, owner, fvalue, execs, ranby, afterFail,
                    accepted, hooked, discarded, cret, quiet, stop_log, owner_ref,
                    blocked_at_stop >>

\* clear_queue, lines 279-281: lock wait_mutex_, notify_all, unlock, and
\* dummy goes out of scope
StClearNotify(c) ==
    /\ cpc[c] = "st_notify"
    /\ wait_mutex_ = NoThread
    /\ cpc' = [NotifyAll(cpc) EXCEPT ![c] = "st_join"]
    /\ fstate' = Destroyed(fstate, ctask[c])
    /\ ctask' = [ctask EXCEPT ![c] = NoTask]
    /\ UNCHANGED << lfqVars, sqVars, crVars, lfpVars >>
    /\ UNCHANGED << is_running_, task_count_, wait_for_completion_, wait_mutex_,
                    task_queue_, threads_, wpc, wtask, wdrain, cop,
                    ntasks, owner, fvalue, execs, ranby, afterFail,
                    accepted, hooked, discarded, cret, quiet, stop_log, owner_ref,
                    blocked_at_stop >>

\* a stop that returns without waiting for the worker threads
StJoin_Detach(c) ==
    /\ cpc[c] = "st_join"
    /\ threads_' = {}
    /\ cret' = [cret EXCEPT ![c] = IF cop[c] = "stop_true" THEN "stopped_drain"
                                                          ELSE "stopped_abandon"]
    /\ cop' = [cop EXCEPT ![c] = "none"]
    /\ cpc' = [cpc EXCEPT ![c] = "idle"]
    /\ UNCHANGED << lfqVars, sqVars, crVars, lfpVars >>
    /\ UNCHANGED << is_running_, task_count_, wait_for_completion_, wait_mutex_,
                    task_queue_, wpc, wtask, wdrain, ctask,
                    ntasks, owner, fstate, fvalue, execs, ranby, afterFail,
                    accepted, hooked, discarded, quiet, stop_log, owner_ref,
                    blocked_at_stop >>

\* stop, lines 247-253: join every worker (each join returns once that
\* worker_thread has returned), threads_.clear(), return
StJoin(c) ==
    /\ cpc[c] = "st_join"
    /\ \A w \in threads_ : wpc[w] = "w_exit"
    /\ threads_' = {}
    /\ cret' = [cret EXCEPT ![c] = IF cop[c] = "stop_true" THEN "stopped_drain"
                                                          ELSE "stopped_abandon"]
    /\ cop' = [cop EXCEPT ![c] = "none"]
    /\ cpc' = [cpc EXCEPT ![c] = "idle"]
    /\ UNCHANGED << lfqVars, sqVars, crVars, lfpVars >>
    /\ UNCHANGED << is_running_, task_count_, wait_for_completion_, wait_mutex_,
                    task_queue_, wpc, wtask, wdrain, ctask,
                    ntasks, owner, fstate, fvalue, execs, ranby, afterFail,
                    accepted, hooked, discarded, quiet, stop_log, owner_ref,
                    blocked_at_stop >>

\* ---------------------------- the pool's lifetime -------------------------
\* no closure, and so no `self` copy, exists
NoClosure ==
    /\ task_queue_ = << >>
    /\ \A w \in Workers : wtask[w] = NoTask
    /\ \A c \in Clients : ctask[c] = NoTask

\* the creator lets go of the shared_ptr create() returned (lines 162-167),
\* as at the end of each TEST body of test_thread_pool.cpp; if no closure
\* holds a copy, ~ThreadPool runs on this thread
OwnerRelease(c) ==
    /\ owner_ref
    /\ \A d \in Clients : cpc[d] = "idle"
    /\ owner_ref' = FALSE
    /\ cpc' = [cpc EXCEPT ![c] = IF NoClosure THEN "dtor" ELSE "idle"]
    /\ UNCHANGED << lfqVars, sqVars, crVars, lfpVars >>
    /\ UNCHANGED << is_running_, task_count_, wait_for_completion_, wait_mutex_,
                    task_queue_, threads_, wpc, wtask, wdrain, cop, ctask,
                    ntasks, owner, fstate, fvalue, execs, ranby, afterFail,
                    accepted, hooked, discarded, cret, quiet, stop_log,
                    blocked_at_stop >>

\* ~ThreadPool on a worker, lines 170-172 and 232-234: stop(true) exchanges
\* is_running_; had the pool been stopped already, stop returns and the
\* members are destroyed under the running thread
WorkerDtorStop(w) ==
    /\ wpc[w] = "w_dtor"
    /\ is_running_' = ExchangedValue
    /\ wpc' = [wpc EXCEPT ![w] = IF StopWins THEN "w_dtor_wait" ELSE "w_terminate"]
    /\ stop_log' = IF StopWins THEN Append(stop_log, "drain") ELSE stop_log
    /\ UNCHANGED << lfqVars, sqVars, crVars, lfpVars >>
    /\ UNCHANGED << task_count_, wait_for_completion_, wait_mutex_,
                    task_queue_, threads_, wtask, wdrain, cpc, cop, ctask,
                    ntasks, owner, fstate, fvalue, execs, ranby, afterFail,
                    accepted, hooked, discarded, cret, quiet, owner_ref,
                    blocked_at_stop >>

\* ~ThreadPool on a worker, lines 242-244: wait_all() returns once the
\* predicate holds with wait_mutex_ taken
WorkerDtorWait(w) ==
    /\ wpc[w] = "w_dtor_wait"
    /\ wait_mutex_ = NoThread
    /\ WaitPredicate
    /\ wpc' = [wpc EXCEPT ![w] = "w_dtor_join"]
    /\ UNCHANGED << lfqVars, sqVars, crVars, lfpVars >>
    /\ UNCHANGED << is_running_, task_count_, wait_for_completion_, wait_mutex_,
                    task_queue_, threads_, wtask, wdrain, cpc, cop, ctask,
                    ntasks, owner, fstate, fvalue, execs, ranby, afterFail,
                    accepted, hooked, discarded, cret, quiet, stop_log, owner_ref,
                    blocked_at_stop >>

\* ~ThreadPool on a worker, lines 247-251: the loop joins the threads of
\* threads_ in order and comes to the std::thread of the calling worker;
\* join() on the own thread throws resource_deadlock_would_occur out of the
\* destructor, which ends the process
WorkerDtorJoin(w) ==
    /\ wpc[w] = "w_dtor_join"
    /\ \A v \in threads_ : v < w => wpc[v] = "w_exit"
    /\ wpc' = [wpc EXCEPT ![w] = "w_terminate"]
    /\ UNCHANGED << lfqVars, sqVars, crVars, lfpVars >>
    /\ UNCHANGED << is_running_, task_count_, wait_for_completion_, wait_mutex_,
                    task_queue_, threads_, wtask, wdrain, cpc, cop, ctask,
                    ntasks, owner, fstate, fvalue, execs, ranby, afterFail,
                    accepted, hooked, discarded, cret, quiet, stop_log, owner_ref,
                    blocked_at_stop >>

WorkerDtor(w) == WorkerDtorStop(w) \/ WorkerDtorWait(w) \/ WorkerDtorJoin(w)

Submit(c) == SubmitCheck(c) \/ SubmitInc(c) \/ SubmitPush(c)

WaitAll(c) == WaitAllBegin(c) \/ WaLock(c) \/ WaCheck(c) \/ WaSpurious(c)

Stop(c) ==
    \/ \E wait \in BOOLEAN : StopBegin(c, wait)
    \/ StClearPop(c) \/ StClearDec(c) \/ StClearNotify(c) \/ StJoin(c)

Worker(w) ==
    WorkerLoop(w) \/ WorkerPop(w) \/ WorkerRun(w) \/ WorkerDec(w) \/ WorkerNotify(w)

(***************************************************************************)
(* Part III.  SafeQueue on its own: push, pop, block_pop                   *)
(* Every operation runs under mutex_, so each critical section is one      *)
(* step; cv_.wait releases mutex_ and blocks in one step.                  *)
(***************************************************************************)
BlockPoppers == 1 .. NumBlockPoppers
Poppers == (NumBlockPoppers + 1) .. (NumBlockPoppers + NumPoppers)
SQThreads == BlockPoppers \cup Poppers

\* SafeQueue(), safe_queue.h:21
SQInit ==
    /\ data_ = << >>
    /\ sq_pc = [t \in SQThreads |-> "idle"]
    /\ sq_value = [t \in SQThreads |-> Unset]
    /\ sq_ret = [t \in SQThreads |-> "none"]
    /\ sq_pushed = 0
    /\ sq_calls = 0

\* threads blocked in cv_.wait
SQWaiting == { t \in SQThreads : sq_pc[t] = "waiting" }

\* a block_pop that tests the queue once, before its first wait only
MustWait_If(woken) == ~woken /\ data_ = << >>

\* block_pop, line 66: while (data_.empty())
MustWait(woken) == data_ = << >>

\* a push that notifies nobody
NotifyOne_None(state) == {state}

\* cv_.notify_one(), safe_queue.h:36/43: wakes one thread blocked in cv_.wait,
\* if there is one
NotifyOne(state) ==
    IF \E t \in SQThreads : state[t] = "waiting"
    THEN { [state EXCEPT ![t] = "woken"] : t \in { u \in SQThreads : state[u] = "waiting" } }
    ELSE {state}

\* block_pop, lines 72-74: move the front out and pop_front; front() of an
\* empty deque is undefined and yields an arbitrary value
SQTake(t) ==
    /\ sq_value' = [sq_value EXCEPT ![t] = IF data_ = << >> THEN Junk ELSE Head(data_)]
    /\ data_' = IF data_ = << >> THEN data_ ELSE Tail(data_)
    /\ sq_ret' = [sq_ret EXCEPT ![t] = "true"]
    /\ sq_pc' = [sq_pc EXCEPT ![t] = "idle"]

\* push, safe_queue.h:33-44
SQPush ==
    /\ sq_pushed < MaxPushes
    /\ sq_pushed' = sq_pushed + 1
    /\ data_' = SafeQueue_push(data_, sq_pushed + 1)
    /\ sq_pc' \in NotifyOne(sq_pc)
    /\ UNCHANGED << sq_value, sq_ret, sq_calls >>
    /\ UNCHANGED << lfqVars, poolVars, crVars, lfpVars >>

\* pop, safe_queue.h:49-59
SQPop(t) ==
    /\ t \in Poppers
    /\ sq_pc[t] = "idle"
    /\ sq_calls < MaxPushes
    /\ sq_calls' = sq_calls + 1
    /\ LET r == SafeQueue_pop(data_) IN
          /\ data_' = r.rest
          /\ sq_ret' = [sq_ret EXCEPT ![t] = IF r.ok THEN "true" ELSE "false"]
          /\ sq_value' = [sq_value EXCEPT ![t] = IF r.ok THEN r.value ELSE @]
    /\ UNCHANGED << sq_pc, sq_pushed >>
    /\ UNCHANGED << lfqVars, poolVars, crVars, lfpVars >>

\* block_pop, lines 63-69: lock, test, and either wait or take
SQBlockPop(t) ==
    /\ t \in BlockPoppers
    /\ sq_pc[t] = "idle"
    /\ sq_calls < MaxPushes
    /\ sq_calls' = sq_calls + 1
    /\ IF MustWait(FALSE)
       THEN /\ sq_pc' = [sq_pc EXCEPT ![t] = "waiting"]
            /\ sq_ret' = [sq_ret EXCEPT ![t] = "none"]
            /\ UNCHANGED << data_, sq_value >>
       ELSE SQTake(t)
    /\ UNCHANGED sq_pushed
    /\ UNCHANGED << lfqVars, poolVars, crVars, lfpVars >>

\* std::condition_variable::wait may wake without a notification
SQSpurious(t) ==
    /\ sq_pc[t] = "waiting"
    /\ sq_pc' = [sq_pc EXCEPT ![t] = "woken"]
    /\ UNCHANGED << data_, sq_value, sq_ret, sq_pushed, sq_calls >>
    /\ UNCHANGED << lfqVars, poolVars, crVars, lfpVars >>

\* block_pop, lines 66-74: cv_.wait re-acquires mutex_ and returns, the loop
\* tests data_.empty() again
SQReacquire(t) ==
    /\ sq_pc[t] = "woken"
    /\ IF MustWait(TRUE)
       THEN /\ sq_pc' = [sq_pc EXCEPT ![t] = "waiting"]
            /\ UNCHANGED << data_, sq_value, sq_ret >>
       ELSE SQTake(t)
    /\ UNCHANGED << sq_pushed, sq_calls >>
    /\ UNCHANGED << lfqVars, poolVars, crVars, lfpVars >>

(***************************************************************************)
(* Part IV.  ThreadPool::create and the constructor                        *)
(***************************************************************************)
\* before create is called; thread_count is any value up to MaxThreadCount
CrStart ==
    /\ cr_arg \in 0 .. MaxThreadCount
    /\ cr_pc = "start"
    /\ cr_is_running = FALSE
    /\ cr_task_count = 0
    /\ cr_threads = << >>

\* the pool of Parts II: create(NumWorkers) has returned
CrDone ==
    /\ cr_arg = NumWorkers
    /\ cr_pc = "done"
    /\ cr_is_running = TRUE
    /\ cr_task_count = 0
    /\ cr_threads = [i \in 1 .. NumWorkers |-> "w_loop"]

\* a create that takes any thread_count
CreateRejects_Never == FALSE

\* create, safe_queue.cpp:163: if (thread_count == 0)
CreateRejects == cr_arg = 0

\* thread_count(), safe_queue.cpp:225-227: threads_.size()
thread_count == Len(cr_threads)

\* create, lines 163-166, and the member initialisers of line 263
CreateCheck ==
    /\ cr_pc = "start"
    /\ IF CreateRejects
       THEN /\ cr_pc' = "threw"
            /\ UNCHANGED << cr_is_running, cr_task_count >>
       ELSE /\ cr_pc' = "emplace"
            /\ cr_is_running' = TRUE
            /\ cr_task_count' = 0
    /\ UNCHANGED << cr_arg, cr_threads >>
    /\ UNCHANGED << lfqVars, poolVars, sqVars, lfpVars >>

\* constructor, lines 265-268: threads_.emplace_back starts one worker per
\* iteration; after the loop create returns the pool
CreateEmplace ==
    /\ cr_pc = "emplace"
    /\ IF Len(cr_threads) < cr_arg
       THEN /\ cr_threads' = Append(cr_threads, "w_loop")
            /\ UNCHANGED cr_pc
       ELSE /\ cr_pc' = "done"
            /\ UNCHANGED cr_threads
    /\ UNCHANGED << cr_arg, cr_is_running, cr_task_count >>
    /\ UNCHANGED << lfqVars, poolVars, sqVars, lfpVars >>

\* worker_thread, lines 285-301, of a worker that is already started: the
\* queue is empty, so it tests is_running_, fails to pop, yields
CreatedWorker(i) ==
    /\ i \in 1 .. Len(cr_threads)
    /\ cr_threads' = [cr_threads EXCEPT ![i] =
                          IF @ = "w_loop"
                          THEN (IF cr_is_running THEN "w_pop" ELSE "w_exit")
                          ELSE "w_loop"]
    /\ cr_threads[i] # "w_exit"
    /\ UNCHANGED << cr_arg, cr_pc, cr_is_running, cr_task_count >>
    /\ UNCHANGED << lfqVars, poolVars, sqVars, lfpVars >>

(***************************************************************************)
(* Part V.  ThreadPool over LockFreeQueue                                  *)
(*                                                                         *)
(* quant::shared::base::thread_pool::ThreadPool, one step per atomic       *)
(* access of the pool's own fields.  task_queue_ is taken at the           *)
(* sequential behaviour of LockFreeQueue (enqueue appends, dequeue takes   *)
(* the oldest element or fails); the steps inside the queue are Part I.    *)
(***************************************************************************)

\* safe_queue.cpp:343-354: the constructor has started NumWorkers threads
LFPInit ==
    /\ lfp_is_running = TRUE
    /\ lfp_task_count = 0
    /\ lfp_task_queue = << >>
    /\ lfp_threads = Workers
    /\ lfp_wpc = [w \in Workers |-> "l_loop"]
    /\ lfp_wtask = [w \in Workers |-> 0]
    /\ lfp_wdrain = [w \in Workers |-> FALSE]
    /\ lfp_cpc = [c \in Clients |-> "idle"]
    /\ lfp_cop = [c \in Clients |-> "none"]
    /\ lfp_ctask = [c \in Clients |-> 0]
    /\ lfp_ntasks = 0
    /\ lfp_fstate = [t \in Tasks |-> "none"]
    /\ lfp_execs = [t \in Tasks |-> 0]
    /\ lfp_cret = [c \in Clients |-> "none"]
    /\ lfp_at_stop = {}
    /\ lfp_stop_log = << >>

\* where a worker continues after a closure has returned: the while condition
\* (line 362) or the dequeue of the loop at line 385
LfpAfterTask(w) == IF lfp_wdrain[w] THEN "l_deq" ELSE "l_loop"

\* the pool object exists: ~ThreadPool (lines 356-358) has not been entered
LfpLive ==
    \A c \in Clients :
        lfp_cop[c] # "dtor" /\ lfp_cret[c] \notin {"destroyed", "destroyed_noop"}

\* submit, lines 94-105: the is_running_ check, then make_shared and get_future
LfpSubmitCheck(c) ==
    /\ lfp_cpc[c] = "idle"
    /\ LfpLive
    /\ lfp_ntasks < MaxTasks
    /\ IF lfp_is_running
         THEN /\ lfp_ntasks' = lfp_ntasks + 1
              /\ lfp_fstate' = [lfp_fstate EXCEPT ![lfp_ntasks + 1] = "pending"]
              /\ lfp_ctask' = [lfp_ctask EXCEPT ![c] = lfp_ntasks + 1]
              /\ lfp_cpc' = [lfp_cpc EXCEPT ![c] = "s_inc"]
              /\ lfp_cop' = [lfp_cop EXCEPT ![c] = "submit"]
              /\ UNCHANGED lfp_cret
         ELSE /\ lfp_cret' = [lfp_cret EXCEPT ![c] = "threw"]
              /\ UNCHANGED << lfp_ntasks, lfp_fstate, lfp_ctask, lfp_cpc, lfp_cop >>
    /\ UNCHANGED << lfp_is_running, lfp_task_count, lfp_task_queue, lfp_threads,
                    lfp_wpc, lfp_wtask, lfp_wdrain, lfp_execs, lfp_at_stop,
                    lfp_stop_log >>
    /\ UNCHANGED << lfqVars, poolVars, sqVars, crVars >>

\* submit, line 108: task_count_.fetch_add(1)
LfpSubmitInc(c) ==
    /\ lfp_cpc[c] = "s_inc"
    /\ lfp_task_count' = lfp_task_count + 1
    /\ lfp_cpc' = [lfp_cpc EXCEPT ![c] = "s_enq"]
    /\ UNCHANGED << lfp_is_running, lfp_task_queue, lfp_threads, lfp_wpc,
                    lfp_wtask, lfp_wdrain, lfp_cop, lfp_ctask, lfp_ntasks,
                    lfp_fstate, lfp_execs, lfp_cret, lfp_at_stop, lfp_stop_log >>
    /\ UNCHANGED << lfqVars, poolVars, sqVars, crVars >>

\* submit, lines 111-127: task_queue_.enqueue(closure); return result
LfpSubmitEnqueue(c) ==
    /\ lfp_cpc[c] = "s_enq"
    /\ lfp_task_queue' = Append(lfp_task_queue, lfp_ctask[c])
    /\ lfp_cpc' = [lfp_cpc EXCEPT ![c] = "idle"]
    /\ lfp_cop' = [lfp_cop EXCEPT ![c] = "none"]
    /\ lfp_ctask' = [lfp_ctask EXCEPT ![c] = 0]
    /\ lfp_cret' = [lfp_cret EXCEPT ![c] = "future"]
    /\ UNCHANGED << lfp_is_running, lfp_task_count, lfp_threads, lfp_wpc,
                    lfp_wtask, lfp_wdrain, lfp_ntasks, lfp_fstate, lfp_execs,
                    lfp_at_stop, lfp_stop_log >>
    /\ UNCHANGED << lfqVars, poolVars, sqVars, crVars >>

LfpSubmit(c) == LfpSubmitCheck(c) \/ LfpSubmitInc(c) \/ LfpSubmitEnqueue(c)

\* worker_thread, line 362: the while condition; when it fails, line 383
LfpWorkerLoop(w) ==
    /\ lfp_wpc[w] = "l_loop"
    /\ lfp_wpc' = [lfp_wpc EXCEPT ![w] = IF lfp_is_running THEN "l_deq" ELSE "l_after"]
    /\ UNCHANGED << lfp_is_running, lfp_task_count, lfp_task_queue, lfp_threads,
                    lfp_wtask, lfp_wdrain, lfp_cpc, lfp_cop, lfp_ctask,
                    lfp_ntasks, lfp_fstate, lfp_execs, lfp_cret, lfp_at_stop,
                    lfp_stop_log >>
    /\ UNCHANGED << lfqVars, poolVars, sqVars, crVars >>

\* worker_thread, line 383: if (!is_running_) enters the loop of lines 385-391
LfpWorkerAfter(w) ==
    /\ lfp_wpc[w] = "l_after"
    /\ lfp_wdrain' = [lfp_wdrain EXCEPT ![w] = ~lfp_is_running]
    /\ lfp_wpc' = [lfp_wpc EXCEPT ![w] = IF lfp_is_running THEN "l_exit" ELSE "l_deq"]
    /\ UNCHANGED << lfp_is_running, lfp_task_count, lfp_task_queue, lfp_threads,
                    lfp_wtask, lfp_cpc, lfp_cop, lfp_ctask, lfp_ntasks,
                    lfp_fstate, lfp_execs, lfp_cret, lfp_at_stop, lfp_stop_log >>
    /\ UNCHANGED << lfqVars, poolVars, sqVars, crVars >>

\* worker_thread, lines 366 and 385: task_queue_.dequeue(task); on an empty
\* queue the while loop yields (line 378) and the loop of line 385 ends
LfpWorkerDequeue(w) ==
    /\ lfp_wpc[w] = "l_deq"
    /\ IF lfp_task_queue # << >>
         THEN /\ lfp_wtask' = [lfp_wtask EXCEPT ![w] = Head(lfp_task_queue)]
              /\ lfp_task_queue' = Tail(lfp_task_queue)
              /\ lfp_wpc' = [lfp_wpc EXCEPT ![w] = "l_run"]
         ELSE /\ lfp_wpc' = [lfp_wpc EXCEPT ![w] =
                                IF lfp_wdrain[w] THEN "l_exit" ELSE "l_loop"]
              /\ UNCHANGED << lfp_wtask, lfp_task_queue >>
    /\ UNCHANGED << lfp_is_running, lfp_task_count, lfp_threads, lfp_wdrain,
                    lfp_cpc, lfp_cop, lfp_ctask, lfp_ntasks, lfp_fstate,
                    lfp_execs, lfp_cret, lfp_at_stop, lfp_stop_log >>
    /\ UNCHANGED << lfqVars, poolVars, sqVars, crVars >>

\* the closure, lines 112-117: (*task)() makes the future ready
LfpWorkerRun(w) ==
    /\ lfp_wpc[w] = "l_run"
    /\ lfp_execs' = [lfp_execs EXCEPT ![lfp_wtask[w]] = @ + 1]
    /\ lfp_fstate' = [lfp_fstate EXCEPT ![lfp_wtask[w]] = "ready"]
    /\ lfp_wpc' = [lfp_wpc EXCEPT ![w] = "l_dec"]
    /\ UNCHANGED << lfp_is_running, lfp_task_count, lfp_task_queue, lfp_threads,
                    lfp_wtask, lfp_wdrain, lfp_cpc, lfp_cop, lfp_ctask,
                    lfp_ntasks, lfp_cret, lfp_at_stop, lfp_stop_log >>
    /\ UNCHANGED << lfqVars, poolVars, sqVars, crVars >>

\* the closure, lines 120-121: remaining = task_count_.fetch_sub(1)
LfpWorkerDec(w) ==
    /\ lfp_wpc[w] = "l_dec"
    /\ lfp_task_count' = lfp_task_count - 1
    /\ lfp_wpc' = [lfp_wpc EXCEPT ![w] =
                      IF lfp_task_count = 1 THEN "l_notify" ELSE LfpAfterTask(w)]
    /\ lfp_wtask' = [lfp_wtask EXCEPT ![w] = IF lfp_task_count = 1 THEN @ ELSE 0]
    /\ UNCHANGED << lfp_is_running, lfp_task_queue, lfp_threads, lfp_wdrain,
                    lfp_cpc, lfp_cop, lfp_ctask, lfp_ntasks, lfp_fstate,
                    lfp_execs, lfp_cret, lfp_at_stop, lfp_stop_log >>
    /\ UNCHANGED << lfqVars, poolVars, sqVars, crVars >>

\* the closure, lines 122-123: lock_guard on wait_mutex_, wait_cv_.notify_all()
LfpWorkerNotify(w) ==
    /\ lfp_wpc[w] = "l_notify"
    /\ lfp_cpc' = [c \in Clients |->
                      IF lfp_cpc[c] = "wa_blocked" THEN "wa_lock" ELSE lfp_cpc[c]]
    /\ lfp_wpc' = [lfp_wpc EXCEPT ![w] = LfpAfterTask(w)]
    /\ lfp_wtask' = [lfp_wtask EXCEPT ![w] = 0]
    /\ UNCHANGED << lfp_is_running, lfp_task_count, lfp_task_queue, lfp_threads,
                    lfp_wdrain, lfp_cop, lfp_ctask, lfp_ntasks, lfp_fstate,
                    lfp_execs, lfp_cret, lfp_at_stop, lfp_stop_log >>
    /\ UNCHANGED << lfqVars, poolVars, sqVars, crVars >>

LfpWorker(w) ==
    \/ LfpWorkerLoop(w)
    \/ LfpWorkerAfter(w)
    \/ LfpWorkerDequeue(w)
    \/ LfpWorkerRun(w)
    \/ LfpWorkerDec(w)
    \/ LfpWorkerNotify(w)

\* wait_all, line 396: the call begins
LfpWaitAllBegin(c) ==
    /\ lfp_cpc[c] = "idle"
    /\ LfpLive
    /\ lfp_cop' = [lfp_cop EXCEPT ![c] = "wait_all"]
    /\ lfp_cpc' = [lfp_cpc EXCEPT ![c] = "wa_lock"]
    /\ UNCHANGED << lfp_is_running, lfp_task_count, lfp_task_queue, lfp_threads,
                    lfp_wpc, lfp_wtask, lfp_wdrain, lfp_ctask, lfp_ntasks,
                    lfp_fstate, lfp_execs, lfp_cret, lfp_at_stop, lfp_stop_log >>
    /\ UNCHANGED << lfqVars, poolVars, sqVars, crVars >>

\* wait_all, lines 396-399: with wait_mutex_ held the predicate is evaluated;
\* the call returns, or the thread releases the mutex and blocks in wait_cv_.
\* wait_mutex_ guards nothing but this evaluation and notify_all, so one step
\* stands for the critical section.  stop(true), also the destructor's, goes
\* on to the joins.
LfpWaLock(c) ==
    /\ lfp_cpc[c] = "wa_lock"
    /\ IF lfp_task_count # 0
         THEN /\ lfp_cpc' = [lfp_cpc EXCEPT ![c] = "wa_blocked"]
              /\ UNCHANGED << lfp_cop, lfp_cret >>
         ELSE IF lfp_cop[c] \in {"stop_true", "dtor"}
                THEN /\ lfp_cpc' = [lfp_cpc EXCEPT ![c] = "st_join"]
                     /\ UNCHANGED << lfp_cop, lfp_cret >>
                ELSE /\ lfp_cpc' = [lfp_cpc EXCEPT ![c] = "idle"]
                     /\ lfp_cop' = [lfp_cop EXCEPT ![c] = "none"]
                     /\ lfp_cret' = [lfp_cret EXCEPT ![c] = "waited"]
    /\ UNCHANGED << lfp_is_running, lfp_task_count, lfp_task_queue, lfp_threads,
                    lfp_wpc, lfp_wtask, lfp_wdrain, lfp_ctask, lfp_ntasks,
                    lfp_fstate, lfp_execs, lfp_at_stop, lfp_stop_log >>
    /\ UNCHANGED << lfqVars, poolVars, sqVars, crVars >>

\* condition_variable::wait may wake without a notification
LfpWaSpurious(c) ==
    /\ lfp_cpc[c] = "wa_blocked"
    /\ lfp_cpc' = [lfp_cpc EXCEPT ![c] = "wa_lock"]
    /\ UNCHANGED << lfp_is_running, lfp_task_count, lfp_task_queue, lfp_threads,
                    lfp_wpc, lfp_wtask, lfp_wdrain, lfp_cop, lfp_ctask,
                    lfp_ntasks, lfp_fstate, lfp_execs, lfp_cret, lfp_at_stop,
                    lfp_stop_log >>
    /\ UNCHANGED << lfqVars, poolVars, sqVars, crVars >>

LfpWaitAll(c) == LfpWaitAllBegin(c) \/ LfpWaLock(c) \/ LfpWaSpurious(c)

\* stop, lines 409-416: is_running_.exchange(false); a call that finds false
\* returns, stop(true) goes to wait_all, stop(false) straight to the joins
LfpStopBegin(c, wait) ==
    /\ lfp_cpc[c] = "idle"
    /\ LfpLive
    /\ IF lfp_is_running
         THEN /\ lfp_is_running' = FALSE
              /\ lfp_cop' = [lfp_cop EXCEPT ![c] =
                                IF wait THEN "stop_true" ELSE "stop_false"]
              /\ lfp_cpc' = [lfp_cpc EXCEPT ![c] =
                                IF wait THEN "wa_lock" ELSE "st_join"]
              /\ lfp_stop_log' = Append(lfp_stop_log,
                                        IF wait THEN "drain" ELSE "abandon")
              /\ lfp_at_stop' = IF wait THEN lfp_at_stop
                                ELSE SeqToSet(lfp_task_queue)
              /\ UNCHANGED lfp_cret
         ELSE /\ lfp_cret' = [lfp_cret EXCEPT ![c] = "stopped_noop"]
              /\ UNCHANGED << lfp_is_running, lfp_cop, lfp_cpc, lfp_stop_log,
                              lfp_at_stop >>
    /\ UNCHANGED << lfp_task_count, lfp_task_queue, lfp_threads, lfp_wpc,
                    lfp_wtask, lfp_wdrain, lfp_ctask, lfp_ntasks, lfp_fstate,
                    lfp_execs >>
    /\ UNCHANGED << lfqVars, poolVars, sqVars, crVars >>

\* a stop that clears threads_ without joining anybody
LfpStopJoin_Detach(c) ==
    /\ lfp_cpc[c] = "st_join"
    /\ lfp_threads' = {}
    /\ lfp_cret' = [lfp_cret EXCEPT ![c] =
                       IF lfp_cop[c] = "dtor" THEN "destroyed"
                       ELSE IF lfp_cop[c] = "stop_true" THEN "stopped_drain"
                       ELSE "stopped_abandon"]
    /\ lfp_cpc' = [lfp_cpc EXCEPT ![c] = "idle"]
    /\ lfp_cop' = [lfp_cop EXCEPT ![c] = "none"]
    /\ UNCHANGED << lfp_is_running, lfp_task_count, lfp_task_queue, lfp_wpc,
                    lfp_wtask, lfp_wdrain, lfp_ctask, lfp_ntasks, lfp_fstate,
                    lfp_execs, lfp_at_stop, lfp_stop_log >>
    /\ UNCHANGED << lfqVars, poolVars, sqVars, crVars >>

\* stop, lines 419-425: every worker is joined, then threads_.clear()
LfpStopJoin(c) ==
    /\ lfp_cpc[c] = "st_join"
    /\ \A w \in lfp_threads : lfp_wpc[w] = "l_exit"
    /\ lfp_threads' = {}
    /\ lfp_cret' = [lfp_cret EXCEPT ![c] =
                       IF lfp_cop[c] = "dtor" THEN "destroyed"
                       ELSE IF lfp_cop[c] = "stop_true" THEN "stopped_drain"
                       ELSE "stopped_abandon"]
    /\ lfp_cpc' = [lfp_cpc EXCEPT ![c] = "idle"]
    /\ lfp_cop' = [lfp_cop EXCEPT ![c] = "none"]
    /\ UNCHANGED << lfp_is_running, lfp_task_count, lfp_task_queue, lfp_wpc,
                    lfp_wtask, lfp_wdrain, lfp_ctask, lfp_ntasks, lfp_fstate,
                    lfp_execs, lfp_at_stop, lfp_stop_log >>
    /\ UNCHANGED << lfqVars, poolVars, sqVars, crVars >>

LfpStop(c) == (\E wait \in BOOLEAN : LfpStopBegin(c, wait)) \/ LfpStopJoin(c)

\* ~ThreadPool, lines 356-358, at the end of the owner's scope, when no other
\* thread is inside a call: stop(true).  Its exchange (line 409) either
\* finds the pool stopped and returns, or goes on to wait_all and the joins
\* (LfpWaLock, LfpStopJoin).
LfpDtor(c) ==
    /\ lfp_cpc[c] = "idle"
    /\ LfpLive
    /\ \A d \in Clients : lfp_cpc[d] = "idle"
    /\ IF lfp_is_running
         THEN /\ lfp_is_running' = FALSE
              /\ lfp_cop' = [lfp_cop EXCEPT ![c] = "dtor"]
              /\ lfp_cpc' = [lfp_cpc EXCEPT ![c] = "wa_lock"]
              /\ lfp_stop_log' = Append(lfp_stop_log, "drain")
              /\ UNCHANGED lfp_cret
         ELSE /\ lfp_cret' = [lfp_cret EXCEPT ![c] = "destroyed_noop"]
              /\ UNCHANGED << lfp_is_running, lfp_cop, lfp_cpc, lfp_stop_log >>
    /\ UNCHANGED << lfp_task_count, lfp_task_queue, lfp_threads, lfp_wpc,
                    lfp_wtask, lfp_wdrain, lfp_ctask, lfp_ntasks, lfp_fstate,
                    lfp_execs, lfp_at_stop >>
    /\ UNCHANGED << lfqVars, poolVars, sqVars, crVars >>

\* part_002:51-86: the producers run and are joined, then one consumer calls
\* dequeue until it returns false
NextMPSC ==
    \/ \E p \in Producers : Enqueue(p)
    \/ JoinProducers
    \/ /\ joined
       /\ ret[TheConsumer] # "false"
       /\ Dequeue(TheConsumer)

\* producers and a single consumer, all running concurrently
NextSC ==
    \/ \E p \in Producers : Enqueue(p)
    \/ JoinProducers
    \/ Dequeue(TheConsumer)

\* part_002:89-138: producers and consumers all running concurrently
NextLFQ ==
    \/ \E p \in Producers : Enqueue(p)
    \/ JoinProducers
    \/ \E c \in Consumers : Dequeue(c)

\* client threads use the pool's public interface in any order, the workers run
\* one producer and the consumers, with an allocator that hands out released
\* addresses again
TheProducer == 1

NextReuse ==
    \/ Enqueue(TheProducer)
    \/ EnqStartReuse(TheProducer)
    \/ \E c \in Consumers : Dequeue(c)

Next ==
    \/ \E c \in Clients : Submit(c)
    \/ \E c \in Clients : WaitAll(c)
    \/ \E c \in Clients : Stop(c)
    \/ \E w \in Workers : Worker(w)

\* the pool together with the end of its owner's scope
NextOwner ==
    \/ Next
    \/ \E c \in Clients : OwnerRelease(c)
    \/ \E w \in Workers : WorkerDtor(w)

\* a pool of one worker; one thread submits, any thread waits or stops
TheSubmitter == 1
NextOne ==
    \/ Submit(TheSubmitter)
    \/ \E c \in Clients : WaitAll(c)
    \/ \E c \in Clients : Stop(c)
    \/ Worker(TheWorker)

\* clients and workers of the pool over LockFreeQueue
NextLFP ==
    \/ \E c \in Clients : LfpSubmit(c)
    \/ \E c \in Clients : LfpWaitAll(c)
    \/ \E c \in Clients : LfpStop(c)
    \/ \E w \in Workers : LfpWorker(w)

\* the pool over LockFreeQueue together with the end of its owner's scope
NextLFPOwner ==
    \/ NextLFP
    \/ \E c \in Clients : LfpDtor(c)

\* a pool of either kind from its creation to its destruction; the process
\* under consideration has one pool, the other stays as created
NextDtor ==
    \/ LFPInit /\ NextOwner
    \/ PoolInit /\ NextLFPOwner

\* pushers, pop callers and block_pop callers on one SafeQueue
NextSQ ==
    \/ SQPush
    \/ \E t \in SQThreads : SQPop(t)
    \/ \E t \in SQThreads : SQBlockPop(t)
    \/ \E t \in SQThreads : SQSpurious(t)
    \/ \E t \in SQThreads : SQReacquire(t)

\* a pool is created while the workers already started run
NextCreate ==
    \/ CreateCheck
    \/ CreateEmplace
    \/ \E i \in 1 .. MaxThreadCount : CreatedWorker(i)

Init == LFQInit /\ PoolInit /\ SQInit /\ CrDone /\ LFPInit

InitCreate == LFQInit /\ PoolInit /\ SQInit /\ CrStart /\ LFPInit

Spec == Init /\ [][Next]_vars

SpecMPSC == Init /\ [][NextMPSC]_vars
SpecSC == Init /\ [][NextSC]_vars
SpecLFQ == Init /\ [][NextLFQ]_vars
SpecReuse == Init /\ [][NextReuse]_vars

SpecOwner == Init /\ [][NextOwner]_vars

SpecLFP == Init /\ [][NextLFP]_vars

SpecDtor == Init /\ [][NextDtor]_vars

InitOne == LFQInit /\ PoolInitOne /\ SQInit /\ CrDone /\ LFPInit

SpecOne == InitOne /\ [][NextOne]_vars

\* scheduling: a worker thread keeps running, and a client thread inside
\* submit, wait_all or stop goes on with its call; a thread that asks for
\* wait_mutex_ gets it if the mutex is free again and again; whether a client
\* makes a call at all, and whether wait_cv_.wait wakes spuriously, is left
\* open
PoolFairness ==
    /\ \A w \in Workers :
          /\ WF_vars(WorkerLoop(w) \/ WorkerPop(w) \/ WorkerRun(w) \/ WorkerDec(w))
          /\ SF_vars(WorkerNotify(w))
    /\ \A c \in Clients :
          /\ WF_vars(SubmitInc(c) \/ SubmitPush(c))
          /\ SF_vars(WaLock(c))
          /\ WF_vars(WaCheck(c))
          /\ WF_vars(StClearPop(c) \/ StClearDec(c) \/ StJoin(c))
          /\ SF_vars(StClearNotify(c))

\* one thread waits (test_thread_pool.cpp:24 calls wait_all from the thread
\* that owns the pool) while the other client threads submit and stop
Waiters == {NumClients}
Callers == Clients \ Waiters

NextWait ==
    \/ \E c \in Callers : Submit(c)
    \/ \E c \in Callers : Stop(c)
    \/ \E c \in Waiters : WaitAllBegin(c)
    \/ \E c \in Clients : WaLock(c) \/ WaCheck(c) \/ WaSpurious(c)
    \/ \E w \in Workers : Worker(w)

SpecWait == Init /\ [][NextWait]_vars /\ PoolFairness

SpecCreate == InitCreate /\ [][NextCreate]_vars

\* every push of the run is eventually made, and a thread that cv_.wait has
\* woken eventually gets mutex_
SpecSQ ==
    /\ Init /\ [][NextSQ]_vars
    /\ WF_vars(SQPush)
    /\ \A t \in SQThreads : WF_vars(SQReacquire(t))

(***************************************************************************)
(* Claims about LockFreeQueue                                              *)
(***************************************************************************)

RECURSIVE SumOver(_, _)
SumOver(S, f) ==
    IF S = {} THEN 0
    ELSE LET x == CHOOSE y \in S : TRUE IN f[x] + SumOver(S \ {x}, f)

\* the values whose enqueue has been called, and the sequence of producer p's
Enqueued == { Val(p, j - 1) : p \in Producers, j \in 1 .. MaxItems } \cap
            { node_data[n] : n \in 2 .. nalloc }
EnqSeq(p) == [j \in 1 .. sent[p] |-> Val(p, j - 1)]
FromProducer(p, q) ==
    SelectSeq(q, LAMBDA v : v \in { Val(p, j - 1) : j \in 1 .. MaxItems })
IsPrefix(a, b) == Len(a) <= Len(b) /\ \A i \in 1 .. Len(a) : a[i] = b[i]

QueueThreadsIdle == \A t \in Threads : pc[t] = "idle"
TotalDequeued == SumOver(Consumers, [c \in Consumers |-> Len(got[c])])

\* C1: producers enqueue disjoint values and are joined, then one consumer
\* dequeues until dequeue returns false: the dequeued values are exactly the
\* enqueued ones, each once.
C1_NoLossNoDup ==
    (joined /\ ret[TheConsumer] = "false") =>
        LET g == got[TheConsumer] IN
            /\ Len(g) = nalloc - 1
            /\ SeqToSet(g) = Enqueued
            /\ Cardinality(SeqToSet(g)) = Len(g)

C1_Witness ==
    /\ joined
    /\ ret[TheConsumer] = "false"
    /\ Len(got[TheConsumer]) = MaxItems
    /\ \A p \in Producers : sent[p] >= 1

\* C2: producers and consumers run concurrently; once the producers are
\* joined and the consumers have drained the queue (empty() is true and no
\* call is in flight), the successful dequeues number the enqueues and no
\* enqueued value was returned twice.
C2_AllDequeuedOnce ==
    (joined /\ QueueThreadsIdle /\ node_next[head_] = NULL) =>
        /\ TotalDequeued = nalloc - 1
        /\ \A v \in Enqueued :
              SumOver(Consumers, [c \in Consumers |->
                  Cardinality({ i \in 1 .. Len(got[c]) : got[c][i] = v })]) <= 1

\* C3: with a single consumer, what the consumer has received from each
\* producer is, in order, what that producer enqueued first; nothing is
\* skipped or reordered.
C3_FifoPerProducer ==
    \A p \in Producers : IsPrefix(FromProducer(p, got[TheConsumer]), EnqSeq(p))

\* C3, phased use (part_002:11-33): the same property when the consumer runs
\* after the producers, checked under SpecMPSC.
C3_FifoAfterJoin == C3_FifoPerProducer /\ (joined \/ got[TheConsumer] = << >>)

\* C4: every completed dequeue agrees with the abstract FIFO: true comes with
\* the element the abstract queue gave up at the head CAS; false only if the
\* abstract queue was empty at some point of the call, with `value` untouched.
C4_Linearisable ==
    \A c \in Consumers :
        pc[c] = "idle" =>
            /\ ret[c] = "true" => (lin[c] # NoData /\ value[c] = lin[c])
            /\ ret[c] = "false" => (emptySeen[c] /\ value[c] = value_in[c])


(***************************************************************************)
(* Claims about the ThreadPool over SafeQueue                              *)
(***************************************************************************)
Ready(t) == fstate[t] \in {"value", "exception"}
Created == 1 .. ntasks
NoSubmitInFlight == \A c \in Clients : ~InSubmit(c)

\* tasks whose fetch_add (line 187) has happened
Incremented ==
    { t \in Created : ~(cpc[owner[t]] = "sub_inc" /\ ctask[owner[t]] = t) }

\* nothing queued, no worker holds a closure, no submit in flight
Quiescent ==
    /\ task_queue_ = << >>
    /\ \A w \in Workers : wtask[w] = NoTask
    /\ NoSubmitInFlight

\* C5: several client threads submit to a running pool that nobody stops: no
\* callable is ever invoked twice; once all returned futures are ready the
\* number of invocations equals the number of submit calls; and when nothing
\* is queued or held any more, no accepted task has been skipped.
C5_ExactlyOnce ==
    /\ \A t \in Tasks : execs[t] <= 1
    /\ is_running_ =>
          /\ (NoSubmitInFlight /\ \A t \in accepted : Ready(t)) =>
                 SumOver(Tasks, execs) = ntasks
          /\ Quiescent => \A t \in accepted : execs[t] = 1

C5_Witness ==
    /\ is_running_
    /\ accepted = Tasks
    /\ \A t \in Tasks : Ready(t)
    /\ \E t, u \in Tasks : owner[t] # owner[u]

\* C6: a future that holds a value holds the return value of the callable
\* passed to the same submit call, and that callable ran once, whichever
\* worker ran it and in whatever order the tasks were run.
C6_FutureHoldsOwnValue ==
    \A t \in Tasks : fstate[t] = "value" => (fvalue[t] = Ret(t) /\ execs[t] = 1)

\* the later task finished first, on some worker, while the earlier one is
\* accepted and still pending
C6_Witness ==
    \E t, u \in Tasks :
        /\ t < u
        /\ t \in accepted /\ fstate[t] = "pending"
        /\ fstate[u] = "value" /\ fvalue[u] = Ret(u) /\ ranby[u] \in Workers

\* C7: when a callable throws, its future (and only its future) holds the
\* exception, the worker that ran it is still in its loop unless the pool was
\* stopped, task_count_ is (about to be) decremented for it, so that the
\* counter always equals increments minus hooks and discards, and tasks
\* submitted after the failure run once and deliver their own value.
C7_FailureStaysInFuture ==
    /\ task_count_ = Cardinality(Incremented) - Cardinality(hooked \cup discarded)
    /\ \A t \in Tasks : fstate[t] = "exception" =>
          /\ execs[t] = 1
          /\ t \in hooked \/ \E w \in Workers : wtask[w] = t /\ wpc[w] = "w_dec"
          /\ wpc[ranby[t]] = "w_exit" => ~is_running_
    /\ \A u \in afterFail :
          /\ Ready(u) => execs[u] = 1
          /\ fstate[u] = "value" => fvalue[u] = Ret(u)
          /\ (is_running_ /\ Quiescent /\ u \in accepted) => (Ready(u) /\ u \in hooked)

\* a task threw, its hook ran, and the same worker then ran a task submitted
\* after the failure, which returned its value
C7_Witness ==
    \E t, u \in Tasks :
        /\ fstate[t] = "exception" /\ t \in hooked
        /\ u \in afterFail /\ fstate[u] = "value" /\ u \in hooked
        /\ ranby[u] = ranby[t]
        /\ is_running_

\* a task is settled once its completion hook has decremented task_count_
\* (line 201) or clear_queue has decremented for it (line 276)
Settled(t) == t \in hooked \cup discarded

\* C8: pending_tasks() is never negative and never exceeds the number of
\* tasks submitted so far, reads 0 on a fresh pool, and reads 0 once no submit
\* is in flight and, for every submitted task, the completion hook or
\* clear_queue has decremented the counter.
C8_CounterDiscipline ==
    /\ pending_tasks >= 0
    /\ pending_tasks <= ntasks
    /\ ntasks = 0 => pending_tasks = 0
    /\ (NoSubmitInFlight /\ \A t \in Created : Settled(t)) => pending_tasks = 0

\* a failed task, a successful or failed one and an abandoned one are all
\* settled, and the counter reads zero
C8_Witness ==
    /\ ntasks = MaxTasks
    /\ NoSubmitInFlight
    /\ \A t \in Created : Settled(t)
    /\ \E t \in hooked : fstate[t] = "exception"
    /\ discarded # {}
    /\ pending_tasks = 0

\* C8 as stated: pending_tasks() reads 0 as soon as every submitted task's
\* callable has returned or thrown, or the task was abandoned by stop(false).
C8_ZeroOnceCallablesReturned ==
    (NoSubmitInFlight /\ \A t \in Created : Ready(t) \/ t \in discarded) =>
        pending_tasks = 0

\* C9: a wait_all call that has returned found task_count_ zero, and the
\* counter is still zero if no other thread has been inside submit since the
\* call began; every task the calling thread had submitted has by then been
\* executed once with its future ready, or has been discarded by a stop(false).
C9_WaitAllReturn ==
    \A c \in Clients : cret[c] = "waited" =>
        /\ quiet[c] => task_count_ = 0
        /\ \A t \in Created : owner[t] = c =>
              \/ t \in hooked /\ execs[t] = 1 /\ Ready(t)
              \/ t \in discarded

\* the thread submitted every task itself, waited, and all of them ran
C9_Witness ==
    \E c \in Clients :
        /\ cret[c] = "waited" /\ quiet[c]
        /\ ntasks = MaxTasks
        /\ \A t \in Created : owner[t] = c /\ t \in hooked /\ execs[t] = 1
        /\ is_running_

\* C9 as stated: when wait_all returns with no other submitter active, the
\* counter is zero and every task the thread submitted has finished executing.
C9_AllExecutedAtReturn ==
    \A c \in Clients : (cret[c] = "waited" /\ quiet[c]) =>
        /\ task_count_ = 0
        /\ \A t \in Created : owner[t] = c => (execs[t] = 1 /\ Ready(t))

\* C10: a stop(true) call that found the pool running (it won the exchange
\* of line 232) with no submit in flight has returned: every accepted task
\* was executed exactly once, task_count_ is zero, every worker thread has
\* returned and been joined, and is_running_ is false.
C10_StopDrain ==
    \A c \in Clients : (cret[c] = "stopped_drain" /\ quiet[c]) =>
        /\ \A t \in accepted : execs[t] = 1
        /\ accepted = Created
        /\ task_count_ = 0
        /\ \A w \in Workers : wpc[w] = "w_exit"
        /\ threads_ = {}
        /\ ~is_running_

C10_Witness ==
    \E c \in Clients :
        /\ cret[c] = "stopped_drain" /\ quiet[c]
        /\ accepted = Tasks
        /\ \A t \in Tasks : execs[t] = 1

\* C10 as stated: any stop(true) call made after submits of the same thread
\* and with no submit in flight returns
\* only after every accepted task was executed once, the counter is zero and
\* the workers are joined.
C10_AnyStopTrue ==
    \A c \in Clients :
        (cret[c] \in {"stopped_drain", "stop_true_noop"} /\ quiet[c]
         /\ \E t \in accepted : owner[t] = c) =>
            /\ \A t \in accepted : execs[t] = 1
            /\ task_count_ = 0
            /\ \A w \in Workers : wpc[w] = "w_exit"
            /\ ~is_running_

\* the closure of task t is still held by a thread inside clear_queue
HeldByClearQueue(t) ==
    \E c \in Clients : ctask[c] = t /\ cpc[c] \in {"st_clear", "st_notify"}

\* C11: a task clear_queue has discarded is never executed, its future never
\* holds a value or an exception of the callable, and its future is pending
\* only while clear_queue still holds the closure: once the closure is
\* destroyed the future observes broken_promise.
C11_DiscardedBroken ==
    \A t \in discarded :
        /\ execs[t] = 0
        /\ fstate[t] \in {"pending", "broken"}
        /\ fstate[t] = "pending" => HeldByClearQueue(t)

\* stop(false) has returned and a discarded task's future is broken, the task
\* never having run
C11_Witness ==
    /\ \E c \in Clients : cret[c] = "stopped_abandon"
    /\ \E t \in discarded : fstate[t] = "broken" /\ execs[t] = 0

\* C12: once the pool has been stopped with stop(false), a worker that has
\* observed is_running_ == false dequeues no further task: it never again
\* holds a closure popped from the queue, so what was still queued is left
\* to clear_queue and never executed.
C12_NoDrainAfterAbandon ==
    stop_log = << "abandon" >> =>
        \A w \in Workers : wdrain[w] => wtask[w] = NoTask

StopReturns == {"stopped_drain", "stopped_abandon", "stop_true_noop", "stop_false_noop"}

\* what a stop call can change: everything but the caller's own bookkeeping
PoolState ==
    << is_running_, task_count_, wait_for_completion_, wait_mutex_, task_queue_,
       threads_, wpc, wtask, wdrain, cpc, ctask, ntasks, owner, fstate, fvalue,
       execs, accepted, hooked, discarded >>

\* a stop call returns at line 233
NoopStopReturns ==
    \E c \in Clients :
        /\ cpc[c] = "idle"
        /\ cret'[c] \in {"stop_true_noop", "stop_false_noop"}
        /\ cret'[c] # cret[c]

\* C13: of all stop calls, sequential or concurrent and with either argument,
\* at most one goes past line 234, and exactly one once the pool is stopped;
\* a call that returns at line 233 changes no pool state; is_running_ is
\* false once any stop call has returned.
C13_StopIdempotent ==
    /\ [](/\ Len(stop_log) <= 1
          /\ is_running_ <=> stop_log = << >>
          /\ \A c \in Clients : cret[c] \in StopReturns => ~is_running_)
    /\ [][NoopStopReturns => UNCHANGED PoolState]_vars

\* one call did the shutdown, another call with the other argument returned
\* at once
C13_Witness ==
    \E c, d \in Clients :
        /\ cret[c] = "stopped_abandon"
        /\ cret[d] = "stop_true_noop"
        /\ stop_log = << "abandon" >>

\* a submit call throws at line 178
SubmitThrows ==
    \E c \in Clients :
        /\ cpc[c] = "idle"
        /\ cret'[c] = "submit_threw"
        /\ cret'[c] # cret[c]

\* a submit call goes past the check of line 177
SubmitAccepts == \E c \in Clients : cpc[c] = "idle" /\ cpc'[c] = "sub_inc"

\* C14: a submit call that finds is_running_ false throws and changes no
\* pool state (counter, queue, futures), and a submit call goes past the check
\* only if is_running_ was true when it looked.
C14_SubmitAfterStop ==
    /\ [][SubmitThrows => (~is_running_ /\ UNCHANGED PoolState)]_vars
    /\ [][SubmitAccepts => is_running_]_vars

\* a submit on a stopped pool has thrown; the pool holds an earlier task
C14_Witness ==
    \E c \in Clients :
        /\ cret[c] = "submit_threw"
        /\ ~is_running_
        /\ ntasks = 1
        /\ fstate[2] = "none"

\* C15: is_running_ is true until a stop call goes past line 234, is never
\* set back to true, goes from true to false in the step of the one stop call
\* that wins the exchange, and a submit call that starts when the flag is
\* already false never gets past its check.
C15_OneWayLifecycle ==
    /\ [](stop_log = << >> => is_running_)
    /\ [](Len(stop_log) <= 1)
    /\ [][is_running_' => is_running_]_vars
    /\ [][(is_running_ /\ ~is_running_') => Len(stop_log') = Len(stop_log) + 1]_vars
    /\ [][(~is_running_ /\ \E c \in Clients : cpc[c] = "idle" /\ cpc'[c] # "idle")
             => \A c \in Clients : ~(cpc[c] = "idle" /\ InSubmit(c)')]_vars

\* the pool was stopped by stop(true), which has returned, and a later submit
\* was turned away
C15_Witness ==
    /\ stop_log = << "drain" >>
    /\ ~is_running_
    /\ \E c, d \in Clients : cret[c] = "stopped_drain" /\ cret[d] = "submit_threw"

(***************************************************************************)
(* Claims about SafeQueue                                                  *)
(***************************************************************************)
\* C16: a block_pop that returns has taken a pushed element, never the front
\* of an empty queue; when it returns after a wakeup the queue was non-empty
\* and it removed the front; and when the pushes of a run number at least the
\* pop and block_pop calls, every thread blocked in block_pop returns.
C16_BlockPop ==
    /\ [](\A t \in BlockPoppers : sq_ret[t] = "true" => sq_value[t] \in 1 .. sq_pushed)
    /\ [][\A t \in BlockPoppers : (sq_pc[t] = "woken" /\ sq_pc'[t] = "idle") =>
              (data_ # << >> /\ sq_value'[t] = Head(data_) /\ data_' = Tail(data_))]_vars
    /\ \A t \in BlockPoppers : (sq_pc[t] \in {"waiting", "woken"}) ~> (sq_pc[t] = "idle")

\* a stolen wakeup: a push woke a block_pop caller, a pop took the element
\* first, and the woken thread finds the queue empty, while another
\* block_pop caller has returned with an element
C16_Witness ==
    \E t, u \in BlockPoppers : \E q \in Poppers :
        /\ sq_pc[t] = "woken"
        /\ data_ = << >>
        /\ sq_ret[q] = "true"
        /\ sq_ret[u] = "true" /\ sq_pc[u] = "idle"

(***************************************************************************)
(* Claims about ThreadPool::create                                         *)
(***************************************************************************)
\* C17: create(0) throws and starts no worker thread; create(N) with N > 0
\* returns a pool for which is_running() is true, thread_count() is N and
\* pending_tasks() is 0; create never returns a pool for 0 nor throws for N > 0.
C17_Create ==
    /\ cr_arg = 0 => (cr_pc \in {"start", "threw"} /\ thread_count = 0)
    /\ cr_pc = "threw" => cr_arg = 0
    /\ cr_pc = "done" =>
          /\ cr_arg > 0
          /\ cr_is_running
          /\ thread_count = cr_arg
          /\ cr_task_count = 0

\* create(MaxThreadCount) has returned and its workers are running
C17_Witness ==
    /\ cr_pc = "done"
    /\ cr_arg = MaxThreadCount
    /\ thread_count = MaxThreadCount
    /\ \E i \in 1 .. thread_count : cr_threads[i] = "w_pop"

(***************************************************************************)
(* Claims about LockFreeQueue: memory reclamation                          *)
(***************************************************************************)
\* C18: a dequeuer that has won the head CAS and is about to read
\* *next->data (line 118) reads from a node that has not been deleted.
C18_PayloadNodeAlive ==
    \A c \in Consumers : pc[c] = "d_move" => next[c] \notin freed

\* C19: tail_ never points to a deleted node, and an enqueuer about to
\* dereference old_tail (the load of line 73, the CAS of line 83) holds a
\* node that has not been deleted.
C19_TailNodeAlive ==
    /\ tail_ \notin freed
    /\ \A p \in Producers : pc[p] \in {"e_read", "e_link"} => old_tail[p] \notin freed

(***************************************************************************)
(* Claims about the ThreadPool: submit racing with stop                    *)
(***************************************************************************)
InQueue(t) == \E i \in 1 .. Len(task_queue_) : task_queue_[i] = t

\* somebody can still pop the queue: a worker thread that has not returned,
\* or a thread inside clear_queue's loop
SomebodyPops ==
    \/ \E w \in Workers : wpc[w] # "w_exit"
    \/ \E c \in Clients : cpc[c] \in {"st_clear", "st_clear_dec"}

\* C20: an accepted task whose future is pending is never left in the queue
\* with nobody to take it out: while it is queued, some worker thread is still
\* running or clear_queue is still popping, so that the task is eventually
\* executed or discarded.
C20_NoStrandedTask ==
    \A t \in accepted : (fstate[t] = "pending" /\ InQueue(t)) => SomebodyPops

(***************************************************************************)
(* Claims about the ThreadPool: the thread that destroys the pool          *)
(***************************************************************************)
\* a worker is inside ~ThreadPool, or the process ended there
InDtor(w) == wpc[w] \in {"w_dtor", "w_dtor_wait", "w_dtor_join", "w_terminate"}

\* C21: ~ThreadPool never runs on a worker thread of the pool: no worker
\* drops the last shared_ptr to the pool, and so no worker calls stop(true)
\* and joins itself.
C21_DtorOffWorkers == \A w \in Workers : ~InDtor(w)

(***************************************************************************)
(* Claims about the ThreadPool: the outstanding counter                    *)
(***************************************************************************)
\* closures that were popped and whose decrement is still to come: held by a
\* worker before line 201, or by clear_queue before line 276
HeldUncounted ==
    { t \in Tasks : \/ \E w \in Workers : wtask[w] = t /\ wpc[w] \in {"w_run", "w_dec"}
                    \/ \E c \in Clients : ctask[c] = t /\ cpc[c] = "st_clear_dec" }

\* C22: task_count_ is never negative (the size_t never wraps) and equals
\* the number of tasks submit has counted (line 187) that have neither run
\* their completion hook nor been discarded; a task is decremented for by its
\* hook or by clear_queue, never by both and never before it was counted;
\* every queued task has been counted, and the counter is at least the number
\* of queued tasks plus the tasks popped and not yet decremented for.
C22_CounterInvariant ==
    /\ task_count_ >= 0
    /\ task_count_ = Cardinality(Incremented \ (hooked \cup discarded))
    /\ hooked \cap discarded = {}
    /\ (hooked \cup discarded) \subseteq Incremented
    /\ SeqToSet(task_queue_) \subseteq Incremented
    /\ task_count_ >= Len(task_queue_) + Cardinality(HeldUncounted)

\* both tasks are counted and neither is settled: one is being executed by
\* a worker, the other one is queued
C22_Witness ==
    /\ task_count_ = 2
    /\ Len(task_queue_) = 1
    /\ \E w \in Workers : wpc[w] = "w_run" /\ wtask[w] \notin SeqToSet(task_queue_)
    /\ hooked = {} /\ discarded = {}

(***************************************************************************)
(* Claims about the ThreadPool: progress of wait_all and stop              *)
(***************************************************************************)
\* C23: a thread is inside wait_all and task_count_ is zero (brought there
\* by a completion hook or by clear_queue, or zero all along): the thread
\* returns from wait_all, unless a further submit counts a task before it does.
C23_NoLostWakeup ==
    \A c \in Clients :
        (cop[c] = "wait_all" /\ task_count_ = 0)
            ~> (cop[c] # "wait_all" \/ task_count_ # 0)

\* a thread is blocked in wait_cv_.wait, a completion hook has just taken the
\* counter to zero and has not notified yet
C23_Witness ==
    \E c \in Clients : \E w \in Workers :
        /\ cop[c] = "wait_all" /\ cpc[c] = "wa_blocked"
        /\ task_count_ = 0
        /\ wpc[w] = "w_notify"

\* nothing can decrement task_count_ any more: every worker thread has
\* returned, no thread is inside clear_queue, and no submit is in flight
NobodyDecrements ==
    /\ \A w \in Workers : wpc[w] = "w_exit"
    /\ \A c \in Clients : cpc[c] \notin {"st_clear", "st_clear_dec"}
    /\ NoSubmitInFlight

\* C24: a stop(true) call is never blocked in its wait_all (line 243) with
\* the counter above zero when nothing can bring the counter down any more,
\* so that the call can always still return.
C24_StopTrueCanReturn ==
    \A c \in Clients :
        (cop[c] = "stop_true" /\ cpc[c] = "wa_blocked" /\ task_count_ > 0)
            => ~NobodyDecrements

(***************************************************************************)
(* Claims about LockFreeQueue: the shape of the list                       *)
(***************************************************************************)
\* the nodes met from n along the next pointers nx, at most k of them
RECURSIVE Chain(_, _, _)
Chain(nx, n, k) ==
    IF n = NULL \/ k = 0 THEN << >> ELSE << n >> \o Chain(nx, nx[n], k - 1)

\* the list of the queue: the sentinel head_ points to and what follows it
List == Chain(node_next, head_, Cardinality(Nodes))

\* C25: tail_ is a node of the list, and it is the last node or the node
\* before the last: it lags the true tail by at most one link.
C25_TailLagsAtMostOne ==
    \E i \in 1 .. Len(List) : List[i] = tail_ /\ i >= Len(List) - 1

(***************************************************************************)
(* Claims about LockFreeQueue: ownership of the nodes                      *)
(***************************************************************************)
\* consumers that have won the head CAS (line 111) and not returned yet
Owning == { c \in Consumers : pc[c] \in {"d_move", "d_free"} }

\* every node is deleted at most once, by the dequeue that replaced it as
\* sentinel; every payload is moved out at most once; head_ points to an
\* allocated node, and so does head_->next if it is not null, whose payload
\* no dequeue has moved out unless it is the one that is about to make it
\* the sentinel
NodeOwnership ==
    /\ head_ \notin freed
    /\ \A c \in Consumers : pc[c] = "d_free" => old_head[c] \notin freed
    /\ \A c \in Consumers : pc[c] = "d_move" => next[c] \notin moved
    /\ \A c, d \in Owning : c # d => (old_head[c] # old_head[d] /\ next[c] # next[d])
    /\ \A c \in Owning : old_head[c] # head_
    /\ node_next[head_] # NULL =>
          (node_next[head_] \notin freed /\ node_next[head_] \notin moved)

Links(p) == pc[p] = "e_link" /\ pc'[p] = "e_swing"

\* C27: when the CAS of line 83 of an enqueue succeeds, the new node has
\* become the last node of the list that starts at head_, behind a node that
\* is allocated.
C27_LinksAtEndOfList ==
    [][\A p \in Producers :
          Links(p) =>
             LET after == Chain(node_next', head_', Cardinality(Nodes)) IN
                /\ old_tail[p] \notin freed
                /\ after[Len(after)] = new_node[p]]_vars

\* C28: a stop(false) call that has returned, no other thread having been
\* inside submit since it began, leaves the queue empty, every worker thread
\* returned and joined, and task_count_ at zero with every counted task
\* settled by its hook or by clear_queue; and a thread that is inside wait_all
\* once stop(false) has been called returns from it.
C28_StopAbandon ==
    /\ [](\A c \in Clients : (cret[c] = "stopped_abandon" /\ quiet[c]) =>
              /\ task_queue_ = << >>
              /\ \A w \in Workers : wpc[w] = "w_exit"
              /\ threads_ = {}
              /\ task_count_ = 0
              /\ \A t \in Created : Settled(t))
    /\ \A c \in Clients :
          (cop[c] = "wait_all" /\ stop_log = << "abandon" >>) ~> (cop[c] # "wait_all")

\* a thread is blocked in wait_all, stop(false) has discarded a queued task
\* and brought the counter to zero, and clear_queue has not notified yet
C28_Witness ==
    \E c, d \in Clients :
        /\ cop[c] = "wait_all" /\ cpc[c] = "wa_blocked"
        /\ cop[d] = "stop_false" /\ cpc[d] = "st_clear"
        /\ discarded # {}
        /\ task_count_ = 0

\* C29: in the pool over LockFreeQueue a task that is still queued when
\* stop(false) flips is_running_ is abandoned: its callable is never invoked
\* and its future never becomes ready.
C29_StopFalseAbandons ==
    \A t \in lfp_at_stop : lfp_execs[t] = 0 /\ lfp_fstate[t] # "ready"

\* the callable of u is being invoked or has been invoked
Started(u) ==
    \/ execs[u] > 0
    \/ \E w \in Workers : wtask[w] = u /\ wpc[w] = "w_run"

\* the callable of t has returned
Finished(t) == execs[t] > 0

\* clear_queue has taken t out of the queue
Abandoned(t) ==
    \/ t \in discarded
    \/ \E c \in Clients : cpc[c] = "st_clear_dec" /\ ctask[c] = t

\* C30: with one worker and one submitting thread, a task begins execution
\* only when every task submitted before it has finished (or was taken out
\* of the queue by clear_queue), so tasks start in submission order and do
\* not overlap.
C30_SingleWorkerOrder ==
    \A t, u \in Created :
        (t < u /\ Started(u)) => (Finished(t) \/ Abandoned(t))

\* the worker is about to invoke the second task after the first has run
C30_Witness ==
    /\ wpc[TheWorker] = "w_run"
    /\ wtask[TheWorker] = 2
    /\ execs[1] = 1
    /\ ranby[1] = TheWorker
    /\ discarded = {}

\* the client's last call was a stop, and it has returned
StopReturned(c) ==
    /\ cpc[c] = "idle"
    /\ cret[c] \in {"stop_true_noop", "stop_false_noop",
                    "stopped_drain", "stopped_abandon"}

\* C31: whenever a call to stop has returned, also one issued while another
\* stop is still waiting or joining, every worker thread has exited.
C31_StopReturnsAfterExit ==
    \A c \in Clients :
        StopReturned(c) => \A w \in Workers : wpc[w] = "w_exit"

\* client c returns from ~ThreadPool of the pool over SafeQueue: once the
\* creator has released the pool (with every client idle), a client that is
\* not idle is inside the destructor
DtorReturns(c) == ~owner_ref /\ cpc[c] # "idle" /\ cpc'[c] = "idle"

\* what stop leaves alone when it returns at line 233 / line 410
PoolUntouched ==
    UNCHANGED << is_running_, task_count_, task_queue_, threads_, wpc, wtask,
                 fstate, execs, hooked, discarded, stop_log >>
LfpUntouched ==
    UNCHANGED << lfp_is_running, lfp_task_count, lfp_task_queue, lfp_threads,
                 lfp_wpc, lfp_wtask, lfp_fstate, lfp_execs, lfp_stop_log >>

\* C32: the destructor performs stop(true).  Of a pool that has not been
\* stopped it returns only when every accepted task has been executed, the
\* queue is empty, every worker has exited and threads_ is cleared; of a
\* pool already stopped it returns without changing the pool.  Both pools.
C32_DtorIsStopTrue ==
    /\ [][\A c \in Clients : DtorReturns(c) =>
             IF cret'[c] = "stopped_drain"
             THEN /\ stop_log[Len(stop_log)] = "drain"
                  /\ \A t \in accepted : execs[t] = 1
                  /\ task_queue_ = << >>
                  /\ \A w \in Workers : wpc'[w] = "w_exit"
                  /\ threads_' = {}
             ELSE cret'[c] = "stop_true_noop" /\ ~is_running_ /\ PoolUntouched]_vars
    /\ [](\A c \in Clients : lfp_cret[c] = "destroyed" =>
             /\ lfp_stop_log[Len(lfp_stop_log)] = "drain"
             /\ \A t \in 1 .. lfp_ntasks : lfp_execs[t] = 1
             /\ lfp_task_queue = << >>
             /\ lfp_task_count = 0
             /\ \A w \in Workers : lfp_wpc[w] = "l_exit"
             /\ lfp_threads = {})
    /\ [][\A c \in Clients :
             (lfp_cret'[c] = "destroyed_noop" /\ lfp_cret[c] # "destroyed_noop")
                => ~lfp_is_running /\ LfpUntouched]_vars

\* both kinds of pool can be destroyed after having run a task: the
\* destructor of the pool over LockFreeQueue has returned from its joins ...
C32_Witness ==
    \E c \in Clients :
        /\ lfp_cret[c] = "destroyed"
        /\ lfp_ntasks = MaxTasks
        /\ lfp_stop_log = << "drain" >>

\* ... and the destructor of the pool over SafeQueue, on a client, has come
\* to the end of its joins
C32_WitnessSafeQueue ==
    \E c \in Clients :
        /\ ~owner_ref
        /\ cpc[c] = "st_join"
        /\ stop_log = << "drain" >>
        /\ accepted = Tasks
        /\ \A w \in Workers : wpc[w] = "w_exit"

\* C33: when stop(true) returns, every caller that was blocked in wait_all
\* at the moment stop(true) was called has returned from its wait_all.
C33_WaitersReturnFirst ==
    \A d \in Clients :
        (cpc[d] = "idle" /\ cret[d] = "stopped_drain") => blocked_at_stop = {}

=============================================================================
